---------------------------- MODULE Spec2Model ----------------------------
(***************************************************************************)
(* A model of the BFF artificial-life harness: the 10-instruction          *)
(* interpreter bffo_run (bff_orig.c / bff_orig.h) and the primordial-soup  *)
(* driver with its worker pool (soup_orig.c).                              *)
(*                                                                         *)
(* Tokens are 64-bit words [id:32][epoch:16][reserved:8][char:8]; they are *)
(* modelled as records of their four bit fields.  The 64-bit xorshift      *)
(* state is modelled as the tuple of its four 16-bit limbs, a 32-bit id as *)
(* the pair of its two 16-bit limbs, least significant first.              *)
(***************************************************************************)
EXTENDS Integers, Sequences, FiniteSets, TLC

(***************************************************************************)
(* Program constants                                                       *)
(***************************************************************************)
BFFO_TAPE_LEN == 128
BFFO_HALF_LEN == 64
BFFO_MAX_STEPS == 8192
BFFO_STACK_DEPTH == 64

\* the ten instruction bytes
CH_LT == 60
CH_GT == 62
CH_LBRACE == 123
CH_RBRACE == 125
CH_PLUS == 43
CH_MINUS == 45
CH_DOT == 46
CH_COMMA == 44
CH_LBRACK == 91
CH_RBRACK == 93

Cells == 0 .. (BFFO_TAPE_LEN - 1)

(***************************************************************************)
(* Token macros (bff_orig.h)                                               *)
(***************************************************************************)
BFFO_TOKEN_CHAR(t) == t.char
BFFO_TOKEN_EPOCH(t) == t.epoch
BFFO_TOKEN_ID(t) == t.id
\* id is a 32-bit value <<low limb, high limb>>; (uint16_t)(ep), (uint8_t)(ch)
BFFO_MAKE_TOKEN(id, ep, ch) ==
    [id |-> id, epoch |-> ep % 65536, reserved |-> 0, char |-> ch % 256]

\* (t & ~0xFF) | (c & 0xFF): the three upper fields kept, the char replaced
SetChar(t, c) == [t EXCEPT !.char = c % 256]

\* a head that stops at the ends of the tape instead of wrapping
MaskTapeSaturate(x) ==
    IF x < 0 THEN 0 ELSE IF x > BFFO_TAPE_LEN - 1 THEN BFFO_TAPE_LEN - 1 ELSE x

\* x & (BFFO_TAPE_LEN - 1) for a value that may be -1 .. 128
MaskTape(x) == x % BFFO_TAPE_LEN

(***************************************************************************)
(* bffo_run, one iteration of its while loop on a machine record           *)
(*   s = [tape, head0, head1, ip, stack, sp, steps, ret]                   *)
(* ret is TRUE once a return statement has been executed.                  *)
(***************************************************************************)
Count(s) == [s EXCEPT !.steps = @ + 1]

\* the condition under which ']' sets ip back to the top of the stack
TakesJump(s) ==
    /\ BFFO_TOKEN_CHAR(s.tape[s.ip]) = CH_RBRACK
    /\ s.sp # 0
    /\ BFFO_TOKEN_CHAR(s.tape[s.head0]) # 0

\* '+' written without the metadata of the old token
OpPlusDropMeta(s) ==
    [s EXCEPT !.tape[s.head0] =
        [id |-> <<0, 0>>, epoch |-> 0, reserved |-> 0,
         char |-> (BFFO_TOKEN_CHAR(s.tape[s.head0]) + 1) % 256]]

\* '+' applied to the cell under the other head
OpPlusAtHead1(s) ==
    [s EXCEPT !.tape[s.head1] = SetChar(@, BFFO_TOKEN_CHAR(s.tape[s.head1]) + 1)]

OpPlus(s) ==
    [s EXCEPT !.tape[s.head0] = SetChar(@, BFFO_TOKEN_CHAR(s.tape[s.head0]) + 1)]

\* '-' pasted from '+' with the sign left as it was
OpMinusAsPlus(s) ==
    [s EXCEPT !.tape[s.head0] = SetChar(@, BFFO_TOKEN_CHAR(s.tape[s.head0]) + 1)]

OpMinus(s) ==
    [s EXCEPT !.tape[s.head0] = SetChar(@, BFFO_TOKEN_CHAR(s.tape[s.head0]) - 1)]

\* '.' copying the byte only, as on a tape of plain bytes
OpDotCharOnly(s) ==
    [s EXCEPT !.tape[s.head1] = SetChar(@, BFFO_TOKEN_CHAR(s.tape[s.head0]))]

OpDot(s) == [s EXCEPT !.tape[s.head1] = s.tape[s.head0]]

\* ',' as in the 7-instruction dialect: head1 moves on after the copy
OpCommaAdvance(s) ==
    [s EXCEPT !.tape[s.head0] = s.tape[s.head1], !.head1 = MaskTape(s.head1 + 1)]

OpComma(s) == [s EXCEPT !.tape[s.head0] = s.tape[s.head1]]

\* the classic Brainfuck '[': with a zero cell under head0, skip to the
\* matching ']' instead of pushing
RECURSIVE MatchFwd(_, _, _)
MatchFwd(t, k, depth) ==
    IF k >= BFFO_TAPE_LEN THEN BFFO_TAPE_LEN - 1
    ELSE IF BFFO_TOKEN_CHAR(t[k]) = CH_LBRACK THEN MatchFwd(t, k + 1, depth + 1)
    ELSE IF BFFO_TOKEN_CHAR(t[k]) = CH_RBRACK
         THEN IF depth = 0 THEN k ELSE MatchFwd(t, k + 1, depth - 1)
    ELSE MatchFwd(t, k + 1, depth)

OpOpenSkipZero(s) ==
    IF BFFO_TOKEN_CHAR(s.tape[s.head0]) = 0
    THEN [s EXCEPT !.ip = MatchFwd(s.tape, s.ip + 1, 0)]
    ELSE IF s.sp >= BFFO_STACK_DEPTH
         THEN [s EXCEPT !.ret = TRUE]
         ELSE [s EXCEPT !.stack[s.sp] = s.ip, !.sp = s.sp + 1]

\* '[' with the overflow test off by one
OpOpenOffByOne(s) ==
    IF s.sp > BFFO_STACK_DEPTH
    THEN [s EXCEPT !.ret = TRUE]
    ELSE [s EXCEPT !.stack[s.sp] = s.ip, !.sp = s.sp + 1]

OpOpen(s) ==
    IF s.sp >= BFFO_STACK_DEPTH
    THEN [s EXCEPT !.ret = TRUE]
    ELSE [s EXCEPT !.stack[s.sp] = s.ip, !.sp = s.sp + 1]

\* ']' that pops or jumps without looking at the stack pointer first
OpCloseIgnoreEmpty(s) ==
    IF s.sp = 0
    THEN s
    ELSE IF BFFO_TOKEN_CHAR(s.tape[s.head0]) # 0
         THEN [s EXCEPT !.ip = s.stack[s.sp - 1]]
         ELSE [s EXCEPT !.sp = s.sp - 1]

\* ']' testing the whole 64-bit token under head0 instead of its char
OpCloseWholeToken(s) ==
    IF s.sp = 0
    THEN [s EXCEPT !.ret = TRUE]
    ELSE IF s.tape[s.head0] # [id |-> <<0, 0>>, epoch |-> 0, reserved |-> 0, char |-> 0]
         THEN [s EXCEPT !.ip = s.stack[s.sp - 1]]
         ELSE [s EXCEPT !.sp = s.sp - 1]

\* ']' that jumps onto the '[' itself, which is then pushed again
OpCloseOntoOpen(s) ==
    IF s.sp = 0
    THEN [s EXCEPT !.ret = TRUE]
    ELSE IF BFFO_TOKEN_CHAR(s.tape[s.head0]) # 0
         THEN [s EXCEPT !.ip = s.stack[s.sp - 1] - 1]
         ELSE [s EXCEPT !.sp = s.sp - 1]

OpClose(s) ==
    IF s.sp = 0
    THEN [s EXCEPT !.ret = TRUE]
    ELSE IF BFFO_TOKEN_CHAR(s.tape[s.head0]) # 0
         THEN [s EXCEPT !.ip = s.stack[s.sp - 1]]
         ELSE [s EXCEPT !.sp = s.sp - 1]

\* the switch of lines 18-45, entered with the byte c
Execute(s, c) ==
    CASE c = CH_LT -> [s EXCEPT !.head0 = MaskTape(s.head0 - 1)]
      [] c = CH_GT -> [s EXCEPT !.head0 = MaskTape(s.head0 + 1)]
      [] c = CH_LBRACE -> [s EXCEPT !.head1 = MaskTape(s.head1 - 1)]
      [] c = CH_RBRACE -> [s EXCEPT !.head1 = MaskTape(s.head1 + 1)]
      [] c = CH_PLUS -> OpPlus(s)
      [] c = CH_MINUS -> OpMinus(s)
      [] c = CH_DOT -> OpDot(s)
      [] c = CH_COMMA -> OpComma(s)
      [] c = CH_LBRACK -> OpOpen(s)
      [] c = CH_RBRACK -> OpClose(s)
      [] OTHER -> s

\* line 18: the byte switched on is the one in tape[ip] now
Dispatch(s) == Execute(s, BFFO_TOKEN_CHAR(s.tape[s.ip]))

\* the instruction pointer advanced modulo the tape length
AdvanceWrap(s) ==
    IF s.ret THEN s ELSE [s EXCEPT !.ip = MaskTape(s.ip + 1)]

\* the end-of-tape test one cell early
AdvanceStopsShort(s) ==
    IF s.ret THEN s
    ELSE IF s.ip + 1 >= BFFO_TAPE_LEN - 1
         THEN [s EXCEPT !.ret = TRUE]
         ELSE [s EXCEPT !.ip = s.ip + 1]

Advance(s) ==
    IF s.ret THEN s
    ELSE IF s.ip + 1 >= BFFO_TAPE_LEN
         THEN [s EXCEPT !.ret = TRUE]
         ELSE [s EXCEPT !.ip = s.ip + 1]

\* a pass that counts the step only after the dispatch did not return
IterateCountLate(s) ==
    LET d == Dispatch(s) IN
    IF d.ret THEN d ELSE Advance(Count(d))

Iterate(s) == Advance(Dispatch(Count(s)))

\* the while condition, off by one
LoopCondOffByOne(s) == s.steps <= BFFO_MAX_STEPS

\* the while condition
LoopCond(s) == s.steps < BFFO_MAX_STEPS

\* at most n further passes through the loop, then the final return
RECURSIVE RunLoop(_, _)
RunLoop(s, n) ==
    IF s.ret THEN s
    ELSE IF ~LoopCond(s) THEN [s EXCEPT !.ret = TRUE]
    ELSE IF n = 1 THEN Iterate(s)
    ELSE LET h == n \div 2
             m == RunLoop(s, h)
         IN  RunLoop(m, n - h)

EntryState(t, h0, h1) ==
    [tape |-> t, head0 |-> h0, head1 |-> h1, ip |-> 0,
     stack |-> [k \in 0 .. (BFFO_STACK_DEPTH - 1) |-> -1],
     sp |-> 0, steps |-> 0, ret |-> FALSE]

\* the whole call: the tape left behind and the value returned
bffo_run(t, h0, h1) ==
    LET f == RunLoop(EntryState(t, h0, h1), BFFO_MAX_STEPS + 1)
    IN  [tape |-> f.tape, steps |-> f.steps]

(***************************************************************************)
(* XorShift64 (soup_orig.c).  A 64-bit word is the tuple of its four       *)
(* 16-bit limbs, least significant first.                                  *)
(***************************************************************************)
LIMB == 65536

RECURSIVE Xor16(_, _)
Xor16(a, b) ==
    IF a = 0 THEN b
    ELSE IF b = 0 THEN a
    ELSE ((a + b) % 2) + 2 * Xor16(a \div 2, b \div 2)

Xor(x, y) == <<Xor16(x[1], y[1]), Xor16(x[2], y[2]),
               Xor16(x[3], y[3]), Xor16(x[4], y[4])>>

\* x << 13
Shl13(x) ==
    <<(x[1] * 8192) % LIMB,
      ((x[2] * 8192) % LIMB) + (x[1] \div 8),
      ((x[3] * 8192) % LIMB) + (x[2] \div 8),
      ((x[4] * 8192) % LIMB) + (x[3] \div 8)>>

\* x >> 7
Shr7(x) ==
    <<(x[1] \div 128) + ((x[2] % 128) * 512),
      (x[2] \div 128) + ((x[3] % 128) * 512),
      (x[3] \div 128) + ((x[4] % 128) * 512),
      x[4] \div 128>>

\* x << 17
Shl17(x) ==
    <<0,
      (x[1] * 2) % LIMB,
      ((x[2] * 2) % LIMB) + (x[1] \div 32768),
      ((x[3] * 2) % LIMB) + (x[2] \div 32768)>>

\* the word holding a number below 2^31
Word(n) == <<n % LIMB, n \div LIMB, 0, 0>>

\* the uint32_t holding a number below 2^31
Id32(n) == <<n % LIMB, n \div LIMB>>

\* x++ on a uint32_t: the value after the increment, modulo 2^32
Inc32(x) ==
    IF x[1] + 1 < LIMB THEN <<x[1] + 1, x[2]>>
    ELSE <<0, (x[2] + 1) % LIMB>>

\* x < y on uint32_t
Lt32(x, y) == x[2] < y[2] \/ (x[2] = y[2] /\ x[1] < y[1])

\* x % m as a number, for a modulus m below 2^15
WordMod(x, m) ==
    ((((((x[4] % m) * LIMB + x[3]) % m) * LIMB + x[2]) % m) * LIMB + x[1]) % m

\* the new state, which is also the value returned
xorshift64(s) ==
    LET a == Xor(s, Shl13(s))
        b == Xor(a, Shr7(a))
    IN  Xor(b, Shl17(b))

\* the n >= 1 states that follow s
RECURSIVE Stream(_, _)
Stream(s, n) ==
    IF n = 1 THEN <<xorshift64(s)>>
    ELSE LET h == n \div 2
             front == Stream(s, h)
         IN  front \o Stream(front[h], n - h)

\* the state after n >= 1 updates
Warm(s, n) == Stream(s, n)[n]

(***************************************************************************)
(* Soup parameters.  The arena of the program holds 2^17 tapes; the model  *)
(* keeps the shape (a power of two of tapes of 64 tokens, paired in        *)
(* halves) with 2^SoupBits tapes.                                          *)
(***************************************************************************)
SoupBits == 2
SOUP_SIZE == 2 ^ SoupBits
NPAIRS == SOUP_SIZE \div 2
MAX_THREADS == 256
SOUP_TOTAL_BYTES == SOUP_SIZE * BFFO_HALF_LEN
Tapes == 0 .. (SOUP_SIZE - 1)
Half == 0 .. (BFFO_HALF_LEN - 1)
PairIdx == 0 .. (NPAIRS - 1)

(***************************************************************************)
(* main, lines 252-260: seeding and the initial arena                      *)
(***************************************************************************)
SeedRng(sd) == Warm(Word(sd), 32)

\* cell j of tape i is the (64 i + j)-th token minted, its byte the low
\* byte of the (64 i + j + 1)-th draw
InitArena(g) ==
    LET draws == Stream(g, SOUP_TOTAL_BYTES)
    IN  [soup |-> [i \in Tapes |-> [j \in Half |->
                     BFFO_MAKE_TOKEN(Id32(i * BFFO_HALF_LEN + j), 0,
                                     draws[i * BFFO_HALF_LEN + j + 1][1] % 256)]],
         rng |-> draws[SOUP_TOTAL_BYTES],
         next_id |-> Id32(SOUP_TOTAL_BYTES)]

(***************************************************************************)
(* shuffle_perm                                                            *)
(***************************************************************************)
\* a swap that forgets to write the saved element back
SwapLossy(p, i, j) == [p EXCEPT ![i] = p[j]]

Swap(p, i, j) == [p EXCEPT ![i] = p[j], ![j] = p[i]]

RECURSIVE ShuffleFrom(_, _, _)
ShuffleFrom(p, g, i) ==
    IF i = 0 THEN [perm |-> p, rng |-> g]
    ELSE LET g1 == xorshift64(g)
             j == WordMod(g1, i + 1)
         IN  ShuffleFrom(Swap(p, i, j), g1, i - 1)

shuffle_perm(g) == ShuffleFrom([i \in Tapes |-> i], g, SOUP_SIZE - 1)

(***************************************************************************)
(* main, lines 267-273: the slice of pair indices of worker t of n,        *)
(* np pairs in all                                                         *)
(***************************************************************************)
\* every slice chunk long, the last one too
WorkerSliceNoSnap(t, n, np) ==
    [start |-> t * (np \div n), end |-> t * (np \div n) + (np \div n)]

\* every slice starting at pair 0
WorkerSliceFromZero(t, n, np) ==
    [start |-> 0, end |-> IF t = n - 1 THEN np ELSE t * (np \div n) + (np \div n)]

WorkerSlice(t, n, np) ==
    LET chunk == np \div n IN
    [start |-> t * chunk,
     end |-> IF t = n - 1 THEN np ELSE t * chunk + chunk]

(***************************************************************************)
(* worker_thread, lines 113-126: one pair                                  *)
(***************************************************************************)
PairA(i) == i

\* the partner taken from the next slot instead of the other half
PairBNext(i) == i + 1

PairB(i) == i + NPAIRS

Combine(arena, a, b) ==
    [k \in Cells |-> IF k < BFFO_HALF_LEN THEN arena[a][k] ELSE arena[b][k - BFFO_HALF_LEN]]

\* lines 120-123 on the local tape: the heads drawn, the interpreter run
ExecPair(comb, r) ==
    LET r1 == xorshift64(r)
        r2 == xorshift64(r1)
        res == bffo_run(comb, r1[1] % BFFO_TAPE_LEN, r2[1] % BFFO_TAPE_LEN)
    IN  [combined |-> res.tape, steps |-> res.steps, rng |-> r2]

\* lines 125-126
StoreBack(arena, a, b, comb) ==
    LET first == [arena EXCEPT ![a] = [j \in Half |-> comb[j]]]
    IN  [first EXCEPT ![b] = [j \in Half |-> comb[j + BFFO_HALF_LEN]]]

(***************************************************************************)
(* mutate_soup, lines 78-84, for a Poisson draw that came out as k: the    *)
(* loop of lines 72-75 has taken k + 1 values from the generator.          *)
(***************************************************************************)
Shr41(x) == (x[3] \div 512) + (x[4] * 128)

RECURSIVE MutateFrom(_, _, _, _, _)
MutateFrom(arena, g, nid, ep, m) ==
    IF m = 0 THEN [soup |-> arena, rng |-> g, next_id |-> nid]
    ELSE LET r == xorshift64(g)
             pos == Shr41(r) % SOUP_TOTAL_BYTES
             val == r[1] % 256
         IN  MutateFrom(
                [arena EXCEPT ![pos \div BFFO_HALF_LEN][pos % BFFO_HALF_LEN] =
                    BFFO_MAKE_TOKEN(nid, ep, val)],
                r, Inc32(nid), ep, m - 1)

mutate_soup(arena, g, nid, ep, k) == MutateFrom(arena, Warm(g, k + 1), nid, ep, k)

\* the ids taken from the counter by k executions of next_token_id++
RECURSIVE MintedIds(_, _)
MintedIds(nid, k) ==
    IF k = 0 THEN << >> ELSE <<nid>> \o MintedIds(Inc32(nid), k - 1)

\* the ids minted by lines 256-260
InitIds == {Id32(n) : n \in 0 .. (SOUP_TOTAL_BYTES - 1)}

(***************************************************************************)
(* State.  The first group is one activation of bffo_run; the second is    *)
(* the soup driver and its workers.                                        *)
(***************************************************************************)
VARIABLES tape, head0, head1, ip, stack, sp, steps, pc,
          arg_tape, arg_head0, arg_head1,  \* the arguments of the call
          twin   \* a second activation of bffo_run, called with the same
                 \* heads on a tape of the same chars, or << >> for none

VARIABLES
    \* the command line, argv[0] first, or << >> where it is not looked at
    argv,
    \* configuration (main, lines 229-250)
    seed, nthreads, epochs, stats_interval, mutation_on, runlog_on,
    \* globals of soup_orig.c
    soup, perm, next_token_id, global_rng, worker_args, pair_steps,
    pool_shutdown, barrier_start, barrier_end,
    \* the driver thread: its position, its loop counter, the barrier
    \* generation it waits for, its output
    dpc, epoch, d_gen, rows, runlog,
    \* the worker threads: position, loop index i, local rng, local tape,
    \* the barrier generation seen on arrival
    wpc, w_i, w_rng, w_combined, w_gen,
    \* observation, per epoch: the workers that touched each tape and each
    \* pair_steps entry, the number of executions of each pair index
    tape_access, steps_access, exec_count,
    \* observation, over the run: the ids given to freshly made tokens and
    \* the number of tokens they were given to
    issued, n_issued,
    \* the locals of the sampling loop of mutate_soup (lines 68-76) when it
    \* is looked at on its own, or << >>
    sampler,
    \* one call of bf_run_batch (bf.c) with its worker threads, or << >>
    batch,
    \* one call of bf_run (bf.c), or << >>
    bf

ivars == <<tape, head0, head1, ip, stack, sp, steps, pc,
           arg_tape, arg_head0, arg_head1, twin>>
cvars == <<argv, seed, nthreads, epochs, stats_interval, mutation_on, runlog_on>>
gvars == <<soup, perm, next_token_id, global_rng, worker_args, pair_steps,
           pool_shutdown, barrier_start, barrier_end>>
dvars == <<dpc, epoch, d_gen, rows, runlog>>
wvars == <<wpc, w_i, w_rng, w_combined, w_gen>>
ovars == <<tape_access, steps_access, exec_count, issued, n_issued>>
pvars == <<sampler, batch, bf>>
svars == <<cvars, gvars, dvars, wvars, ovars, pvars>>
vars == <<ivars, svars>>

\* the parts of the soup state that take no part
SoupRest ==
    /\ argv = << >>
    /\ nthreads = 0 /\ epochs = 0 /\ stats_interval = 0
    /\ mutation_on = FALSE /\ runlog_on = FALSE
    /\ soup = << >> /\ next_token_id = Id32(0)
    /\ worker_args = << >> /\ pair_steps = << >>
    /\ pool_shutdown = FALSE
    /\ barrier_start = [count |-> 0, gen |-> 0]
    /\ barrier_end = [count |-> 0, gen |-> 0]
    /\ d_gen = 0 /\ rows = << >> /\ runlog = << >>
    /\ wpc = << >> /\ w_i = << >> /\ w_rng = << >> /\ w_combined = << >>
    /\ w_gen = << >>
    /\ tape_access = << >> /\ steps_access = << >> /\ exec_count = << >>
    /\ issued = {} /\ n_issued = 0

\* the soup part of the state while only the interpreter is looked at
SoupIdle ==
    /\ SoupRest
    /\ sampler = << >> /\ batch = << >> /\ bf = << >>
    /\ seed = 0 /\ perm = << >> /\ global_rng = Word(0)
    /\ dpc = "none" /\ epoch = 0

\* the interpreter part of the state while the soup is looked at
RunIdle ==
    /\ tape = << >> /\ head0 = 0 /\ head1 = 0 /\ ip = 0 /\ stack = << >>
    /\ sp = 0 /\ steps = 0 /\ pc = "none"
    /\ arg_tape = << >> /\ arg_head0 = 0 /\ arg_head1 = 0
    /\ twin = << >>

Cur ==
    [tape |-> tape, head0 |-> head0, head1 |-> head1, ip |-> ip,
     stack |-> stack, sp |-> sp, steps |-> steps, ret |-> FALSE]

(***************************************************************************)
(* Input tapes of the interpreter specification: a program at cell 0, an   *)
(* optional program ending at cell 127, data bytes under the two heads.    *)
(* Cell k carries id 1000+k, so every token of an input tape is distinct.  *)
(***************************************************************************)
MaxProgLen == 2

Instr == {CH_LT, CH_GT, CH_LBRACE, CH_RBRACE, CH_PLUS, CH_MINUS,
          CH_DOT, CH_COMMA, CH_LBRACK, CH_RBRACK}
Alphabet == Instr \cup {1}

Blank(k) == [id |-> Id32(1000 + k), epoch |-> 3 + (k % 2), reserved |-> k % 4, char |-> 0]

TapeOf(c) ==
    [k \in Cells |->
        [Blank(k) EXCEPT !.char =
            IF k < Len(c.prog) THEN c.prog[k + 1]
            ELSE IF k >= BFFO_TAPE_LEN - Len(c.tail)
                 THEN c.tail[k - (BFFO_TAPE_LEN - Len(c.tail)) + 1]
            ELSE IF k = c.h0 THEN c.v0
            ELSE IF k = c.h1 THEN c.v1
            ELSE 0]]

Cfg(p, t, a, x, b, y) == [prog |-> p, tail |-> t, h0 |-> a, v0 |-> x, h1 |-> b, v1 |-> y]

Progs == UNION {[1 .. n -> Alphabet] : n \in 0 .. MaxProgLen}

Generated == {Cfg(p, <<>>, 50, x, 60, 99) : p \in Progs, x \in {0, 5}}

Brackets65 == [k \in 1 .. 65 |-> CH_LBRACK]

\* a tape filled with one head instruction: the head goes once round
Sweep(c) == [k \in 1 .. BFFO_TAPE_LEN |-> c]

Scenarios ==
    {   \* the scenarios of the test suite and of the specification
        Cfg(<<CH_LBRACK, CH_COMMA, CH_RBRACK, CH_RBRACK>>, <<>>, 50, 0, 60, 99),
        Cfg(<<CH_LBRACK, CH_COMMA, CH_RBRACK, CH_RBRACK>>, <<>>, 4, 0, 127, 99),
        Cfg(<<CH_LBRACK, CH_COMMA, CH_RBRACK, CH_RBRACK>>, <<>>, 127, 0, 4, 99),
        Cfg(<<CH_COMMA, CH_RBRACE, CH_DOT, CH_RBRACK>>, <<>>, 50, 7, 60, 42),
        Cfg(<<CH_LBRACK, CH_MINUS, CH_RBRACK, CH_RBRACK>>, <<>>, 50, 5, 60, 0),
        Cfg(<<CH_PLUS, CH_DOT, CH_COMMA, CH_RBRACK>>, <<>>, 50, 0, 2, 0),
        Cfg(<<CH_GT, CH_PLUS, CH_RBRACK>>, <<>>, 127, 0, 60, 0),
        Cfg(<<CH_LT, CH_PLUS, CH_RBRACK>>, <<>>, 0, 0, 60, 0),
        Cfg(<<CH_RBRACE, CH_DOT, CH_RBRACK>>, <<>>, 50, 7, 127, 0),
        Cfg(<<CH_LBRACE, CH_DOT, CH_RBRACK>>, <<>>, 50, 7, 0, 0),
        Cfg(<<CH_COMMA, CH_COMMA, CH_RBRACK>>, <<>>, 50, 0, 60, 42),
        Cfg(<<CH_MINUS, CH_MINUS, CH_PLUS, CH_RBRACK>>, <<>>, 50, 0, 60, 0),
        Cfg(<<CH_PLUS, CH_PLUS, CH_MINUS, CH_RBRACK>>, <<>>, 51, 255, 60, 0),
        Cfg(Brackets65, <<>>, 100, 0, 60, 0),
        Cfg(Sweep(CH_LT), <<>>, 0, 0, 60, 0),
        Cfg(Sweep(CH_GT), <<>>, 0, 0, 60, 0),
        Cfg(Sweep(CH_LBRACE), <<>>, 50, 0, 0, 0),
        Cfg(Sweep(CH_RBRACE), <<>>, 50, 0, 0, 0),
        \* a loop closed by the last cell of the tape
        Cfg(<<CH_LBRACK, CH_MINUS>>, <<CH_RBRACK>>, 50, 2, 60, 0),
        Cfg(<<1>>, <<CH_LBRACK, CH_RBRACK>>, 50, 3, 60, 0),
        Cfg(<<>>, <<CH_LBRACK, CH_MINUS, CH_RBRACK>>, 50, 2, 60, 0),
        Cfg(<<>>, <<CH_RBRACK>>, 50, 1, 60, 0),
        Cfg(<<CH_LBRACK>>, <<CH_PLUS>>, 50, 1, 60, 0),
        \* a '.' that overwrites the '+' after it with a data byte, and one
        \* that overwrites a data byte with '+'
        Cfg(<<CH_DOT, CH_PLUS>>, <<>>, 50, 5, 1, 0),
        Cfg(<<CH_DOT, 1>>, <<>>, 50, CH_PLUS, 1, 0) }

\* the tape of zeros, the heads at the ends of the tape and in between
ZeroTapes == {Cfg(<<>>, <<>>, a, 0, b, 0) : a, b \in {0, 50, BFFO_TAPE_LEN - 1}}

\* '+' in cell 0 of a tape of zeros, head0 at 50
IncrementTapes == {Cfg(<<CH_PLUS>>, <<>>, 50, 0, b, 0) : b \in {0, 60, BFFO_TAPE_LEN - 1}}

Inputs == Generated \cup Scenarios \cup ZeroTapes \cup IncrementTapes

(***************************************************************************)
(* bffo_run as a state machine: one action per pass through the loop.      *)
(***************************************************************************)
\* lines 10-14: the call bffo_run(TapeOf(c), c.h0, c.h1) has been entered
InitCall(c) ==
    /\ tape = TapeOf(c)
    /\ head0 = c.h0
    /\ head1 = c.h1
    /\ arg_tape = TapeOf(c)
    /\ arg_head0 = c.h0
    /\ arg_head1 = c.h1
    /\ ip = 0
    /\ stack = [k \in 0 .. (BFFO_STACK_DEPTH - 1) |-> -1]
    /\ sp = 0
    /\ steps = 0
    /\ pc = "loop"
    /\ SoupIdle

InitRun == \E c \in Inputs : InitCall(c) /\ twin = << >>

\* the second activation, if any, makes its pass through the loop as well
TwinStep == IF twin = << >> THEN twin ELSE RunLoop(twin, 1)

\* a pass that switches on the byte tape[ip] held when the call was entered
BffoIterDecoded ==
    /\ pc = "loop"
    /\ LoopCond(Cur)
    /\ LET s == Advance(Execute(Count(Cur), BFFO_TOKEN_CHAR(arg_tape[ip]))) IN
        /\ tape' = s.tape
        /\ head0' = s.head0
        /\ head1' = s.head1
        /\ ip' = s.ip
        /\ stack' = s.stack
        /\ sp' = s.sp
        /\ steps' = s.steps
        /\ pc' = IF s.ret THEN "returned" ELSE "loop"
    /\ twin' = TwinStep
    /\ UNCHANGED <<arg_tape, arg_head0, arg_head1, svars>>

\* lines 16-48: the loop condition holds, one instruction is executed
BffoIter ==
    /\ pc = "loop"
    /\ LoopCond(Cur)
    /\ LET s == Iterate(Cur) IN
        /\ tape' = s.tape
        /\ head0' = s.head0
        /\ head1' = s.head1
        /\ ip' = s.ip
        /\ stack' = s.stack
        /\ sp' = s.sp
        /\ steps' = s.steps
        /\ pc' = IF s.ret THEN "returned" ELSE "loop"
    /\ twin' = TwinStep
    /\ UNCHANGED <<arg_tape, arg_head0, arg_head1, svars>>

\* line 50: the loop condition fails
BffoLimit ==
    /\ pc = "loop"
    /\ ~LoopCond(Cur)
    /\ pc' = "returned"
    /\ twin' = TwinStep
    /\ UNCHANGED <<tape, head0, head1, ip, stack, sp, steps,
                   arg_tape, arg_head0, arg_head1, svars>>

NextRun == BffoIter \/ BffoLimit

SpecRun == InitRun /\ [][NextRun]_vars

FairRun == SpecRun /\ WF_vars(NextRun)

(***************************************************************************)
(* The countdown loop '[' '-' ']' ']' over every starting byte, head0 next *)
(* to the program, mid-tape and in the last cell; beside it the loop       *)
(* '[' ',' ']' ']' that only the step limit ends.                          *)
(***************************************************************************)
CountdownProg == <<CH_LBRACK, CH_MINUS, CH_RBRACK, CH_RBRACK>>

CountdownInputs ==
    {Cfg(CountdownProg, <<>>, h, v, 60, 0) : h \in {4, 50, 127}, v \in 1 .. 255}
        \cup {Cfg(<<CH_LBRACK, CH_COMMA, CH_RBRACK, CH_RBRACK>>, <<>>, 50, 0, 60, 99)}

InitCountdown == \E c \in CountdownInputs : InitCall(c) /\ twin = << >>

SpecCountdown == InitCountdown /\ [][NextRun]_vars

(***************************************************************************)
(* Two activations of bffo_run side by side: the same chars in every cell, *)
(* the same heads, other ids, epochs and reserved bytes.                   *)
(***************************************************************************)
\* metadata for the cells of the second tape: another value in every
\* field of every cell, all bits clear, all bits set
MetaPerCell ==
    [k \in Cells |-> [id |-> Id32(2000 - k), epoch |-> k % 3,
                      reserved |-> 5 + (k % 5)]]

Metas ==
    { MetaPerCell,
      [k \in Cells |-> [id |-> Id32(0), epoch |-> 0, reserved |-> 0]],
      [k \in Cells |-> [id |-> <<LIMB - 1, LIMB - 1>>, epoch |-> LIMB - 1,
                        reserved |-> 255]] }

\* every scenario with every metadata, the generated programs with one
TwinInputs ==
    {[c |-> c, m |-> m] : c \in Scenarios, m \in Metas}
        \cup {[c |-> c, m |-> MetaPerCell] : c \in Generated}

Remeta(t, m) ==
    [k \in Cells |-> [id |-> m[k].id, epoch |-> m[k].epoch,
                      reserved |-> m[k].reserved,
                      char |-> BFFO_TOKEN_CHAR(t[k])]]

InitTwin ==
    \E i \in TwinInputs :
        /\ InitCall(i.c)
        /\ twin = EntryState(Remeta(TapeOf(i.c), i.m), i.c.h0, i.c.h1)

SpecTwin == InitTwin /\ [][NextRun]_vars

(***************************************************************************)
(* soup_stats.  A double is written as the exact fraction num / den; every *)
(* quotient taken here has a power of two as divisor and a dividend below  *)
(* 2^53, so the double holds it exactly.                                   *)
(***************************************************************************)
Ratio(n, d) == [num |-> n, den |-> d]

\* the lookup table IS_OP of bff_orig.c
IS_OP(c) ==
    IF c \in {CH_LT, CH_GT, CH_LBRACE, CH_RBRACE, CH_PLUS, CH_MINUS,
              CH_DOT, CH_COMMA, CH_LBRACK, CH_RBRACK}
    THEN 1 ELSE 0

RECURSIVE CountOpsFrom(_, _)
CountOpsFrom(half, i) ==
    IF i >= BFFO_HALF_LEN THEN 0
    ELSE IS_OP(BFFO_TOKEN_CHAR(half[i])) + CountOpsFrom(half, i + 1)

bffo_count_ops(half) == CountOpsFrom(half, 0)

\* soup_stats, lines 160-168: the histogram freq and the sum total
RECURSIVE OpsHistogram(_, _, _, _)
OpsHistogram(arena, i, freq, total) ==
    IF i >= SOUP_SIZE THEN [freq |-> freq, total |-> total]
    ELSE LET ops == bffo_count_ops(arena[i])
         IN  OpsHistogram(arena, i + 1, [freq EXCEPT ![ops] = @ + 1], total + ops)

\* soup_stats, lines 176-181: the walk up the histogram
RECURSIVE MedianScan(_, _, _, _, _, _, _)
MedianScan(freq, pos_lo, pos_hi, v, cumul, lo_val, hi_val) ==
    IF v > BFFO_HALF_LEN THEN [lo |-> lo_val, hi |-> hi_val]
    ELSE LET c == cumul + freq[v]
             lo == IF lo_val < 0 /\ c > pos_lo THEN v ELSE lo_val
             hi == IF hi_val < 0 /\ c > pos_hi THEN v ELSE hi_val
         IN  IF lo >= 0 /\ hi >= 0 THEN [lo |-> lo, hi |-> hi]
             ELSE MedianScan(freq, pos_lo, pos_hi, v + 1, c, lo, hi)

\* the median taken as the upper middle value alone
MedianOpsUpper(freq) ==
    LET m == MedianScan(freq, SOUP_SIZE \div 2, SOUP_SIZE \div 2, 0, 0, -1, -1)
    IN  Ratio(m.lo + m.hi, 2)

\* soup_stats, lines 172-182
MedianOps(freq) ==
    LET m == MedianScan(freq, SOUP_SIZE \div 2 - 1, SOUP_SIZE \div 2, 0, 0, -1, -1)
    IN  Ratio(m.lo + m.hi, 2)

\* cmp_uint32 on 32-bit values held as limb pairs
cmp_uint32(x, y) ==
    (IF Lt32(y, x) THEN 1 ELSE 0) - (IF Lt32(x, y) THEN 1 ELSE 0)

\* two ascending sequences merged into one, by halving the first
RECURSIVE Merge(_, _)
Merge(a, b) ==
    IF a = << >> THEN b
    ELSE IF b = << >> THEN a
    ELSE LET h == (Len(a) + 1) \div 2
             nb == Cardinality({j \in 1 .. Len(b) : cmp_uint32(b[j], a[h]) < 0})
         IN  Merge(SubSeq(a, 1, h - 1), SubSeq(b, 1, nb))
                \o <<a[h]>>
                \o Merge(SubSeq(a, h + 1, Len(a)), SubSeq(b, nb + 1, Len(b)))

\* qsort(ids, n, sizeof(uint32_t), cmp_uint32): the elements in ascending
\* order of cmp_uint32
RECURSIVE qsort(_)
qsort(ids) ==
    IF Len(ids) <= 1 THEN ids
    ELSE LET h == Len(ids) \div 2
         IN  Merge(qsort(SubSeq(ids, 1, h)), qsort(SubSeq(ids, h + 1, Len(ids))))

\* soup_stats, lines 185-188: the ids of the arena, tape by tape
ArenaIds(arena) ==
    [n \in 1 .. SOUP_TOTAL_BYTES |->
        BFFO_TOKEN_ID(arena[(n - 1) \div BFFO_HALF_LEN][(n - 1) % BFFO_HALF_LEN])]

\* soup_stats, lines 190-193, over the indices lo .. hi - 1 (0-based); the
\* range is halved to keep the evaluation shallow
RECURSIVE UniqueIn(_, _, _)
UniqueIn(ids, lo, hi) ==
    IF hi <= lo THEN 0
    ELSE IF hi = lo + 1
         THEN (IF lo = 0 \/ ids[lo + 1] # ids[lo] THEN 1 ELSE 0)
         ELSE UniqueIn(ids, lo, (lo + hi) \div 2) + UniqueIn(ids, (lo + hi) \div 2, hi)

\* line 201 with >= for >: a later run of equal length takes the mode
ModalUpdateLast(m, cur_id, cur_count) ==
    IF cur_count >= m.count THEN [id |-> cur_id, count |-> cur_count] ELSE m

\* soup_stats, lines 201 and 206
ModalUpdate(m, cur_id, cur_count) ==
    IF cur_count > m.count THEN [id |-> cur_id, count |-> cur_count] ELSE m

\* soup_stats, lines 198-204: one pass of the loop body, at index i
ModalStep(ids, i, st) ==
    IF ids[i + 1] = st.cur_id
    THEN [st EXCEPT !.cur_count = @ + 1]
    ELSE [m |-> ModalUpdate(st.m, st.cur_id, st.cur_count),
          cur_id |-> ids[i + 1], cur_count |-> 1]

\* soup_stats, lines 197-205, for i in lo .. hi - 1; the range is halved to
\* keep the evaluation shallow (cur_count is at least 1 at every point)
RECURSIVE ModalIn(_, _, _, _)
ModalIn(ids, lo, hi, st) ==
    IF hi <= lo THEN st
    ELSE IF hi = lo + 1 THEN ModalStep(ids, lo, st)
    ELSE LET left == ModalIn(ids, lo, (lo + hi) \div 2, st)
         IN  IF left.cur_count > 0 THEN ModalIn(ids, (lo + hi) \div 2, hi, left)
             ELSE left

\* soup_stats, lines 195-208
Modal(ids) ==
    LET st == ModalIn(ids, 1, Len(ids),
                      [m |-> [id |-> ids[1], count |-> 0],
                       cur_id |-> ids[1], cur_count |-> 1])
    IN  ModalUpdate(st.m, st.cur_id, st.cur_count)

\* soup_stats, lines 212-214: the cells of a tape that carry the id
RECURSIVE CountId(_, _, _)
CountId(half, id, j) ==
    IF j >= BFFO_HALF_LEN THEN 0
    ELSE (IF BFFO_TOKEN_ID(half[j]) = id THEN 1 ELSE 0) + CountId(half, id, j + 1)

\* soup_stats, lines 210-216
RECURSIVE BestTape(_, _, _, _, _)
BestTape(arena, id, i, best_tape, best_count) ==
    IF i >= SOUP_SIZE THEN best_tape
    ELSE LET cnt == CountId(arena[i], id, 0)
         IN  IF cnt > best_count THEN BestTape(arena, id, i + 1, i, cnt)
             ELSE BestTape(arena, id, i + 1, best_tape, best_count)

\* soup_stats, lines 218-222: the instruction bytes of the tape, 32 (a
\* blank) for every other byte
RepStr(half) ==
    [j \in 0 .. (BFFO_HALF_LEN - 1) |->
        IF IS_OP(BFFO_TOKEN_CHAR(half[j])) = 1 THEN BFFO_TOKEN_CHAR(half[j]) ELSE 32]

soup_stats(arena) ==
    LET h == OpsHistogram(arena, 0, [v \in 0 .. BFFO_HALF_LEN |-> 0], 0)
        ids == qsort(ArenaIds(arena))
        m == Modal(ids)
    IN  [mean |-> Ratio(h.total, SOUP_SIZE),
         median |-> MedianOps(h.freq),
         unique |-> UniqueIn(ids, 0, Len(ids)),
         modal_id |-> m.id,
         modal_count |-> m.count,
         rep_str |-> RepStr(arena[BestTape(arena, m.id, 0, 0, 0)])]

\* lines 306-312: the mean and the maximum of pair_steps
RECURSIVE StepSum(_, _)
StepSum(st, i) == IF i >= NPAIRS THEN 0 ELSE st[i] + StepSum(st, i + 1)

RECURSIVE StepMax(_, _, _)
StepMax(st, i, step_max) ==
    IF i >= NPAIRS THEN step_max
    ELSE StepMax(st, i + 1, IF st[i] > step_max THEN st[i] ELSE step_max)

\* lines 296-297 and 314-316: the row printed for epoch ep
StatsRow(ep, arena, mean_steps, max_steps) ==
    [epoch |-> ep, stats |-> soup_stats(arena),
     mean_steps |-> mean_steps, max_steps |-> max_steps]

(***************************************************************************)
(* The soup driver (main) and its workers (worker_thread) as threads.      *)
(* A step of a thread is one access to shared state together with the      *)
(* thread-local work that leads up to it.                                  *)
(***************************************************************************)
MaxThreads == 2
MaxEpochs == 2
MaxMutations == 1
Seeds == {1, 12345}

\* the worker threads of the pool, numbered 0 .. nthreads - 1 (line 269)
Workers == DOMAIN wpc

\* pthread_barrier_init(&b, NULL, nthreads + 1), with the driver left out
BarrierPartiesNoDriver == nthreads

BarrierParties == nthreads + 1

\* pthread_barrier_wait, the arrival: the last party to arrive resets the
\* count and turns the generation, which releases every waiting party
Arrives(b) ==
    IF b.count + 1 >= BarrierParties
    THEN [count |-> 0, gen |-> 1 - b.gen]
    ELSE [count |-> b.count + 1, gen |-> b.gen]

\* pthread_barrier_wait, the return: the generation seen on arrival is over
Released(b, g) == b.gen # g

\* main returned (line 243, 285 or 330): the process is gone, its threads
\* too
Alive == dpc \notin {"usage", "failed", "done"}

\* the value main returns, -1 while it has not returned
ExitCode ==
    CASE dpc = "done" -> 0
      [] dpc \in {"usage", "failed"} -> 1
      [] OTHER -> -1

\* the state when main has read its arguments and initialised the arena,
\* the stats interval being interval
InitAt(interval) ==
    /\ RunIdle
    /\ sampler = << >> /\ batch = << >> /\ bf = << >>
    /\ argv = << >>
    /\ seed \in Seeds
    /\ \E a \in {InitArena(SeedRng(seed))} :
        /\ soup = a.soup
        /\ global_rng = a.rng
        /\ next_token_id = a.next_id
    /\ nthreads \in 1 .. MaxThreads
    /\ epochs = MaxEpochs
    /\ stats_interval = interval
    /\ mutation_on \in BOOLEAN
    /\ runlog_on \in BOOLEAN
    /\ perm = [i \in Tapes |-> 0]
    /\ pair_steps = [i \in PairIdx |-> 0]
    /\ worker_args =
          [t \in 0 .. (nthreads - 1) |->
              [start |-> WorkerSlice(t, nthreads, NPAIRS).start,
               end |-> WorkerSlice(t, nthreads, NPAIRS).end,
               rng |-> Word(0)]]
    /\ pool_shutdown = FALSE
    /\ barrier_start = [count |-> 0, gen |-> 0]
    /\ barrier_end = [count |-> 0, gen |-> 0]
    /\ dpc = "create" /\ epoch = 0 /\ d_gen = 0
    /\ rows = << >> /\ runlog = << >>
    /\ wpc = [t \in 0 .. (nthreads - 1) |-> "unborn"]
    /\ w_i = [t \in 0 .. (nthreads - 1) |-> 0]
    /\ w_rng = [t \in 0 .. (nthreads - 1) |-> Word(0)]
    /\ w_combined = [t \in 0 .. (nthreads - 1) |-> << >>]
    /\ w_gen = [t \in 0 .. (nthreads - 1) |-> 0]
    /\ tape_access = [x \in Tapes |-> {}]
    /\ steps_access = [i \in PairIdx |-> {}]
    /\ exec_count = [i \in PairIdx |-> 0]
    /\ issued = InitIds
    /\ n_issued = SOUP_TOTAL_BYTES

Init == InitAt(2)

---------------------------------------------------------------------------
\* worker_thread

\* line 108: the worker calls pthread_barrier_wait(&barrier_start)
W_arrive_start(t) ==
    /\ Alive
    /\ wpc[t] = "start"
    /\ barrier_start' = Arrives(barrier_start)
    /\ wpc' = [wpc EXCEPT ![t] = "in_start"]
    /\ w_gen' = [w_gen EXCEPT ![t] = barrier_start.gen]
    /\ UNCHANGED <<ivars, pvars, cvars, dvars, ovars, w_i, w_rng, w_combined,
                   soup, perm, next_token_id, global_rng, worker_args,
                   pair_steps, pool_shutdown, barrier_end>>

\* lines 108-112: the barrier has opened; leave on shutdown, else take the
\* seed and the start of the slice
W_check(t) ==
    /\ Alive
    /\ wpc[t] = "in_start"
    /\ Released(barrier_start, w_gen[t])
    /\ IF pool_shutdown
       THEN /\ wpc' = [wpc EXCEPT ![t] = "exit"]
            /\ UNCHANGED <<w_i, w_rng>>
       ELSE /\ wpc' = [wpc EXCEPT ![t] = "loop"]
            /\ w_rng' = [w_rng EXCEPT ![t] = worker_args[t].rng]
            /\ w_i' = [w_i EXCEPT ![t] = worker_args[t].start]
    /\ UNCHANGED <<ivars, pvars, cvars, gvars, dvars, ovars, w_combined, w_gen>>

\* lines 112-123: i < end; the two halves are read, the heads drawn, the
\* interpreter run on the local tape and its step count stored
W_load(t) ==
    /\ Alive
    /\ wpc[t] = "loop"
    /\ w_i[t] < worker_args[t].end
    /\ \E i \in {w_i[t]}, ai \in {perm[PairA(w_i[t])]}, bi \in {perm[PairB(w_i[t])]} :
       \E e \in {ExecPair(Combine(soup, ai, bi), w_rng[t])} :
           /\ w_combined' = [w_combined EXCEPT ![t] = e.combined]
           /\ w_rng' = [w_rng EXCEPT ![t] = e.rng]
           /\ pair_steps' = [pair_steps EXCEPT ![i] = e.steps]
           /\ tape_access' = [x \in Tapes |->
                                IF x \in {ai, bi} THEN tape_access[x] \cup {t}
                                                  ELSE tape_access[x]]
           /\ steps_access' = [steps_access EXCEPT ![i] = @ \cup {t}]
           /\ exec_count' = [exec_count EXCEPT ![i] = @ + 1]
    /\ wpc' = [wpc EXCEPT ![t] = "store"]
    /\ UNCHANGED <<ivars, pvars, cvars, dvars, w_i, w_gen, soup, perm, next_token_id,
                   global_rng, worker_args, pool_shutdown, barrier_start,
                   barrier_end, issued, n_issued>>

\* lines 125-126 and i++: the two halves are written back
W_store(t) ==
    /\ Alive
    /\ wpc[t] = "store"
    /\ LET i == w_i[t] IN
          soup' = StoreBack(soup, perm[PairA(i)], perm[PairB(i)], w_combined[t])
    /\ w_combined' = [w_combined EXCEPT ![t] = << >>]
    /\ w_i' = [w_i EXCEPT ![t] = @ + 1]
    /\ wpc' = [wpc EXCEPT ![t] = "loop"]
    /\ UNCHANGED <<ivars, pvars, cvars, dvars, ovars, w_rng, w_gen, perm, next_token_id,
                   global_rng, worker_args, pair_steps, pool_shutdown,
                   barrier_start, barrier_end>>

\* lines 112, 129: i >= end; the worker calls pthread_barrier_wait(&barrier_end)
W_arrive_end(t) ==
    /\ Alive
    /\ wpc[t] = "loop"
    /\ w_i[t] >= worker_args[t].end
    /\ barrier_end' = Arrives(barrier_end)
    /\ wpc' = [wpc EXCEPT ![t] = "in_end"]
    /\ w_gen' = [w_gen EXCEPT ![t] = barrier_end.gen]
    /\ UNCHANGED <<ivars, pvars, cvars, dvars, ovars, w_i, w_rng, w_combined,
                   soup, perm, next_token_id, global_rng, worker_args,
                   pair_steps, pool_shutdown, barrier_start>>

\* line 129: the barrier has opened; back to line 108
W_leave_end(t) ==
    /\ Alive
    /\ wpc[t] = "in_end"
    /\ Released(barrier_end, w_gen[t])
    /\ wpc' = [wpc EXCEPT ![t] = "start"]
    /\ UNCHANGED <<ivars, pvars, cvars, gvars, dvars, ovars, w_i, w_rng, w_combined, w_gen>>

---------------------------------------------------------------------------
\* main

\* line 280: pthread_create starts the next worker thread, or fails (EAGAIN)
\* and starts none; its return value is not looked at
D_create ==
    /\ dpc = "create"
    /\ \E t \in Workers :
          /\ wpc[t] = "unborn"
          /\ \A u \in Workers : u < t => wpc[u] # "unborn"
          /\ \/ wpc' = [wpc EXCEPT ![t] = "start"]
             \/ wpc' = [wpc EXCEPT ![t] = "nothread"]
          /\ dpc' = IF t = nthreads - 1 THEN "open" ELSE "create"
    /\ UNCHANGED <<ivars, pvars, cvars, gvars, ovars, epoch, d_gen, rows, runlog,
                   w_i, w_rng, w_combined, w_gen>>

\* the run log opened after the row of epoch 0 has been printed
D_openAfterRow ==
    /\ dpc = "open"
    /\ \/ dpc' = "stats0" /\ rows' = rows
       \/ /\ runlog_on
          /\ dpc' = "failed"
          /\ rows' = Append(rows, StatsRow(0, soup, Ratio(0, 1), 0))
    /\ UNCHANGED <<ivars, pvars, cvars, gvars, wvars, ovars, epoch, d_gen, runlog>>

\* lines 282-287: the run log is opened, which may fail
D_open ==
    /\ dpc = "open"
    /\ \/ dpc' = "stats0"
       \/ runlog_on /\ dpc' = "failed"
    /\ UNCHANGED <<ivars, pvars, cvars, gvars, wvars, ovars, epoch, d_gen, rows, runlog>>

\* lines 292-298 with a soup_stats that shuffles perm to pick its sample
D_stats0Shuffles ==
    /\ dpc = "stats0"
    /\ rows' = Append(rows, StatsRow(0, soup, Ratio(0, 1), 0))
    /\ epoch' = 1
    /\ dpc' = "top"
    /\ \E sh \in {shuffle_perm(global_rng)} :
           /\ perm' = sh.perm
           /\ global_rng' = sh.rng
    /\ UNCHANGED <<ivars, pvars, cvars, wvars, ovars, d_gen, runlog, soup,
                   next_token_id, worker_args, pair_steps, pool_shutdown,
                   barrier_start, barrier_end>>

\* lines 292-298: the row of epoch 0
D_stats0 ==
    /\ dpc = "stats0"
    /\ rows' = Append(rows, StatsRow(0, soup, Ratio(0, 1), 0))
    /\ epoch' = 1
    /\ dpc' = "top"
    /\ UNCHANGED <<ivars, pvars, cvars, gvars, wvars, ovars, d_gen, runlog>>

\* soup_epoch without line 140: the workers keep the seed 0 of line 272
D_soup_epochNoSeeds ==
    /\ dpc = "top"
    /\ epoch <= epochs
    /\ \E sh \in {shuffle_perm(global_rng)} :
           /\ perm' = sh.perm
           /\ global_rng' = sh.rng
    /\ tape_access' = [x \in Tapes |-> {}]
    /\ steps_access' = [i \in PairIdx |-> {}]
    /\ exec_count' = [i \in PairIdx |-> 0]
    /\ barrier_start' = Arrives(barrier_start)
    /\ d_gen' = barrier_start.gen
    /\ dpc' = "in_start"
    /\ UNCHANGED <<ivars, pvars, cvars, wvars, epoch, rows, runlog, soup,
                   next_token_id, pair_steps, pool_shutdown, barrier_end,
                   issued, n_issued, worker_args>>

\* lines 300, 138-141: epoch <= epochs; soup_epoch shuffles, seeds the
\* workers and calls pthread_barrier_wait(&barrier_start)
D_soup_epoch ==
    /\ dpc = "top"
    /\ epoch <= epochs
    /\ \E sh \in {shuffle_perm(global_rng)} :
       \E seeds \in {Stream(sh.rng, nthreads)} :
           /\ perm' = sh.perm
           /\ worker_args' =
                 [t \in Workers |-> [worker_args[t] EXCEPT !.rng = seeds[t + 1]]]
           /\ global_rng' = seeds[nthreads]
    /\ tape_access' = [x \in Tapes |-> {}]
    /\ steps_access' = [i \in PairIdx |-> {}]
    /\ exec_count' = [i \in PairIdx |-> 0]
    /\ barrier_start' = Arrives(barrier_start)
    /\ d_gen' = barrier_start.gen
    /\ dpc' = "in_start"
    /\ UNCHANGED <<ivars, pvars, cvars, wvars, epoch, rows, runlog, soup,
                   next_token_id, pair_steps, pool_shutdown, barrier_end,
                   issued, n_issued>>

\* lines 141-142: the start barrier has opened; the driver calls
\* pthread_barrier_wait(&barrier_end)
D_arrive_end ==
    /\ dpc = "in_start"
    /\ Released(barrier_start, d_gen)
    /\ barrier_end' = Arrives(barrier_end)
    /\ d_gen' = barrier_end.gen
    /\ dpc' = "in_end"
    /\ UNCHANGED <<ivars, pvars, cvars, wvars, ovars, epoch, rows, runlog, soup, perm,
                   next_token_id, global_rng, worker_args, pair_steps,
                   pool_shutdown, barrier_start>>

\* line 302: the call mutate_soup(mutation_rate, epoch)
MutateCall ==
    IF mutation_on
    THEN \E k \in 0 .. MaxMutations :
            \E m \in {mutate_soup(soup, global_rng, next_token_id, epoch, k)},
               ids \in {MintedIds(next_token_id, k)} :
                /\ soup' = m.soup
                /\ global_rng' = m.rng
                /\ next_token_id' = m.next_id
                /\ issued' = issued \cup {ids[n] : n \in 1 .. k}
                /\ n_issued' = n_issued + k
    ELSE UNCHANGED <<soup, global_rng, next_token_id, issued, n_issued>>

\* lines 142, 302: the end barrier has opened; mutate_soup(mutation_rate, epoch)
D_mutate ==
    /\ dpc = "in_end"
    /\ Released(barrier_end, d_gen)
    /\ MutateCall
    /\ dpc' = "runlog"
    /\ UNCHANGED <<ivars, pvars, cvars, wvars, epoch, d_gen, rows, runlog, perm,
                   worker_args, pair_steps, pool_shutdown, barrier_start,
                   barrier_end, tape_access, steps_access, exec_count>>

\* fwrite with the first n elements written twice over
fwriteTwice(stream, buf, n) ==
    stream \o [k \in 1 .. n |-> buf[k - 1]] \o [k \in 1 .. n |-> buf[k - 1]]

\* fwrite(buf, sizeof(uint32_t), n, stream): the stream as the sequence of
\* the values written to it, buf[0] .. buf[n - 1] appended in index order
fwrite(stream, buf, n) == stream \o [k \in 1 .. n |-> buf[k - 1]]

\* lines 303-304: the step counts of the epoch are appended to the run log
D_runlog ==
    /\ dpc = "runlog"
    /\ runlog' = IF runlog_on THEN fwrite(runlog, pair_steps, NPAIRS) ELSE runlog
    /\ dpc' = "stats"
    /\ UNCHANGED <<ivars, pvars, cvars, gvars, wvars, ovars, epoch, d_gen, rows>>

\* lines 305-318 without the test of line 305: a row after every epoch
D_statsEvery ==
    /\ dpc = "stats"
    /\ rows' = Append(rows, StatsRow(epoch, soup,
                                     Ratio(StepSum(pair_steps, 0), NPAIRS),
                                     StepMax(pair_steps, 0, 0)))
    /\ epoch' = epoch + 1
    /\ dpc' = "top"
    /\ UNCHANGED <<ivars, pvars, cvars, gvars, wvars, ovars, d_gen, runlog>>

\* lines 305-318 and epoch++: a row every stats_interval epochs. With a
\* stats interval of 0 line 305 divides by zero: the run is killed there,
\* or it goes on with or without the row
D_stats ==
    /\ dpc = "stats"
    /\ IF stats_interval = 0
       THEN \/ dpc' = "killed" /\ UNCHANGED <<rows, epoch>>
            \/ /\ rows' \in {rows,
                              Append(rows, StatsRow(epoch, soup,
                                          Ratio(StepSum(pair_steps, 0), NPAIRS),
                                          StepMax(pair_steps, 0, 0)))}
               /\ epoch' = epoch + 1
               /\ dpc' = "top"
       ELSE /\ rows' = IF epoch % stats_interval = 0
                       THEN Append(rows, StatsRow(epoch, soup,
                                          Ratio(StepSum(pair_steps, 0), NPAIRS),
                                          StepMax(pair_steps, 0, 0)))
                       ELSE rows
            /\ epoch' = epoch + 1
            /\ dpc' = "top"
    /\ UNCHANGED <<ivars, pvars, cvars, gvars, wvars, ovars, d_gen, runlog>>

\* lines 300, 321-324: epoch > epochs; the pool is told to shut down and
\* the driver calls pthread_barrier_wait(&barrier_start)
D_shutdown ==
    /\ dpc = "top"
    /\ epoch > epochs
    /\ pool_shutdown' = TRUE
    /\ barrier_start' = Arrives(barrier_start)
    /\ d_gen' = barrier_start.gen
    /\ dpc' = "join"
    /\ UNCHANGED <<ivars, pvars, cvars, wvars, ovars, epoch, rows, runlog, soup, perm,
                   next_token_id, global_rng, worker_args, pair_steps,
                   barrier_end>>

\* lines 324-330: the start barrier has opened and every worker is joined
D_join ==
    /\ dpc = "join"
    /\ Released(barrier_start, d_gen)
    /\ \A t \in Workers : wpc[t] = "exit"
    /\ dpc' = "done"
    /\ UNCHANGED <<ivars, pvars, cvars, gvars, wvars, ovars, epoch, d_gen, rows, runlog>>

Next ==
    \/ D_create
    \/ D_open
    \/ D_stats0
    \/ D_soup_epoch
    \/ D_arrive_end
    \/ D_mutate
    \/ D_runlog
    \/ D_stats
    \/ D_shutdown
    \/ D_join
    \/ \E t \in Workers : W_arrive_start(t)
    \/ \E t \in Workers : W_check(t)
    \/ \E t \in Workers : W_load(t)
    \/ \E t \in Workers : W_store(t)
    \/ \E t \in Workers : W_arrive_end(t)
    \/ \E t \in Workers : W_leave_end(t)

Spec == Init /\ [][Next]_vars

(***************************************************************************)
(* The run from the entry of main: the command line is read, the arena     *)
(* and the pool are set up, and the run goes on as above.                  *)
(***************************************************************************)
\* atoi, strtoull(.., 10) and strtod on the words used below: the number a
\* numeral stands for, 0 for a word that starts with no digit
atoi(word) ==
    CASE word = "0" -> 0
      [] word = "1" -> 1
      [] word = "2" -> 2
      [] word = "3" -> 3
      [] word = "12345" -> 12345
      [] OTHER -> 0

\* lines 229-234: the defaults
DefaultEpochs == 10000
DefaultStats == 100

Defaults ==
    [ok |-> TRUE, epochs |-> DefaultEpochs, nthreads |-> 0, seed |-> 0,
     stats_interval |-> DefaultStats, mutation_rate |-> 0, runlog_path |-> ""]

\* line 236: the loop condition i < argc - 1
ArgLoop(i, argc) == i < argc - 1

\* lines 236-244: the loop from argument i on (args[i + 1] is argv[i]); a
\* known flag takes the next argument as its value and steps over it
RECURSIVE ParseFrom(_, _, _)
ParseFrom(args, i, cfg) ==
    IF ~ArgLoop(i, Len(args)) THEN cfg
    ELSE LET flag == args[i + 1]
             val == args[i + 2]
         IN  CASE flag = "--epochs" ->
                    ParseFrom(args, i + 2, [cfg EXCEPT !.epochs = atoi(val)])
               [] flag = "--threads" ->
                    ParseFrom(args, i + 2, [cfg EXCEPT !.nthreads = atoi(val)])
               [] flag = "--seed" ->
                    ParseFrom(args, i + 2, [cfg EXCEPT !.seed = atoi(val)])
               [] flag = "--stats" ->
                    ParseFrom(args, i + 2, [cfg EXCEPT !.stats_interval = atoi(val)])
               [] flag = "--mutation" ->
                    ParseFrom(args, i + 2, [cfg EXCEPT !.mutation_rate = atoi(val)])
               [] flag = "--runlog" ->
                    ParseFrom(args, i + 2, [cfg EXCEPT !.runlog_path = val])
               [] OTHER -> [cfg EXCEPT !.ok = FALSE]

ParseArgs(args) == ParseFrom(args, 1, Defaults)

\* the words of the command lines tried
Words == {"--epochs", "--runlog", "--bogus", "1", "log"}

MaxArgs == 2

\* every command line of at most MaxArgs of the words, and some longer ones
\* that use the other flags
Argvs ==
    {<<"soup_orig">> \o a : a \in UNION {[1 .. n -> Words] : n \in 0 .. MaxArgs}}
    \cup {<<"soup_orig", "--threads", "2", "--epochs", "2", "--stats", "1">>,
          <<"soup_orig", "--seed", "1", "--mutation", "1", "--epochs", "2",
            "--stats", "2">>,
          <<"soup_orig", "--runlog", "log", "--epochs", "1", "--bogus">>,
          <<"soup_orig", "--epochs", "1", "--bogus", "--threads", "2">>,
          <<"soup_orig", "--epochs", "1", "--threads", "1", "--bogus", "1">>,
          <<"soup_orig", "--runlog", "log", "--epochs", "2", "--stats", "1",
            "--mutation", "1">>}

\* line 252: the seed used when none is given, made from the address of
\* global_rng
FallbackSeeds == {12345}

\* the state at the entry of main: the statics zeroed, the locals at their
\* defaults, no thread but the driver
InitMain ==
    /\ RunIdle
    /\ sampler = << >> /\ batch = << >> /\ bf = << >>
    /\ argv \in Argvs
    /\ seed = Defaults.seed /\ nthreads = Defaults.nthreads
    /\ epochs = Defaults.epochs /\ stats_interval = Defaults.stats_interval
    /\ mutation_on = FALSE /\ runlog_on = FALSE
    /\ soup = [i \in Tapes |-> [j \in Half |-> BFFO_MAKE_TOKEN(Id32(0), 0, 0)]]
    /\ global_rng = Word(0)
    /\ next_token_id = Id32(0)
    /\ perm = [i \in Tapes |-> 0]
    /\ pair_steps = [i \in PairIdx |-> 0]
    /\ worker_args = << >>
    /\ pool_shutdown = FALSE
    /\ barrier_start = [count |-> 0, gen |-> 0]
    /\ barrier_end = [count |-> 0, gen |-> 0]
    /\ dpc = "parse" /\ epoch = 0 /\ d_gen = 0
    /\ rows = << >> /\ runlog = << >>
    /\ wpc = << >> /\ w_i = << >> /\ w_rng = << >> /\ w_combined = << >>
    /\ w_gen = << >>
    /\ tape_access = [x \in Tapes |-> {}]
    /\ steps_access = [i \in PairIdx |-> {}]
    /\ exec_count = [i \in PairIdx |-> 0]
    /\ issued = {}
    /\ n_issued = 0

\* lines 236-244: the arguments are read; an unknown one ends the run
D_parse ==
    /\ dpc = "parse"
    /\ \E cfg \in {ParseArgs(argv)} :
          IF cfg.ok
          THEN /\ epochs' = cfg.epochs
               /\ nthreads' = cfg.nthreads
               /\ seed' = cfg.seed
               /\ stats_interval' = cfg.stats_interval
               /\ mutation_on' = (cfg.mutation_rate > 0)
               /\ runlog_on' = (cfg.runlog_path # "")
               /\ dpc' = "setup"
          ELSE /\ dpc' = "usage"
               /\ UNCHANGED <<seed, nthreads, epochs, stats_interval,
                              mutation_on, runlog_on>>
    /\ UNCHANGED <<ivars, pvars, argv, gvars, wvars, ovars, epoch, d_gen, rows, runlog>>

\* lines 246-278: the thread count (the number of processors when none is
\* given), the seed, the warm-up and the initial arena; then the slices,
\* the two barriers and the thread ids
D_setup ==
    /\ dpc = "setup"
    /\ \E n \in (IF nthreads <= 0 THEN 1 .. MaxThreads ELSE {nthreads}) :
       \E nt \in {IF n > MAX_THREADS THEN MAX_THREADS ELSE n} :
          /\ nthreads' = nt
          /\ worker_args' =
                [t \in 0 .. (nt - 1) |->
                    [start |-> WorkerSlice(t, nt, NPAIRS).start,
                     end |-> WorkerSlice(t, nt, NPAIRS).end,
                     rng |-> Word(0)]]
          /\ wpc' = [t \in 0 .. (nt - 1) |-> "unborn"]
          /\ w_i' = [t \in 0 .. (nt - 1) |-> 0]
          /\ w_rng' = [t \in 0 .. (nt - 1) |-> Word(0)]
          /\ w_combined' = [t \in 0 .. (nt - 1) |-> << >>]
          /\ w_gen' = [t \in 0 .. (nt - 1) |-> 0]
    /\ \E sd \in (IF seed # 0 THEN {seed} ELSE FallbackSeeds) :
          /\ seed' = sd
          /\ \E a \in {InitArena(SeedRng(sd))} :
                /\ soup' = a.soup
                /\ global_rng' = a.rng
                /\ next_token_id' = a.next_id
    /\ issued' = InitIds
    /\ n_issued' = SOUP_TOTAL_BYTES
    /\ barrier_start' = [count |-> 0, gen |-> 0]
    /\ barrier_end' = [count |-> 0, gen |-> 0]
    /\ dpc' = "create"
    /\ UNCHANGED <<ivars, pvars, argv, epochs, stats_interval, mutation_on, runlog_on,
                   epoch, d_gen, rows, runlog, perm, pair_steps, pool_shutdown,
                   tape_access, steps_access, exec_count>>

\* soup_epoch as long as the epoch is one of the first MaxEpochs; a longer
\* run is not followed further
D_soup_epochFirst ==
    /\ epoch <= MaxEpochs
    /\ D_soup_epoch

NextMain ==
    \/ D_parse
    \/ D_setup
    \/ D_create
    \/ D_open
    \/ D_stats0
    \/ D_soup_epochFirst
    \/ D_arrive_end
    \/ D_mutate
    \/ D_runlog
    \/ D_stats
    \/ D_shutdown
    \/ D_join
    \/ \E t \in Workers : W_arrive_start(t)
    \/ \E t \in Workers : W_check(t)
    \/ \E t \in Workers : W_load(t)
    \/ \E t \in Workers : W_store(t)
    \/ \E t \in Workers : W_arrive_end(t)
    \/ \E t \in Workers : W_leave_end(t)

SpecMain == InitMain /\ [][NextMain]_vars

(***************************************************************************)
(* soup_stats on its own: the row of lines 295-297 printed for an arena    *)
(* picked from a family of arenas.                                         *)
(***************************************************************************)
\* tape x holds (a + b x) mod 65 instruction bytes, at its first cells
StatBases == 0 .. 12
StatStrides == {0, 1, 5, 21}

\* the ids of the cells: all different; or one tape filled by one id; or
\* two tapes filled by one id each, the id of the first tape above 2^31;
\* or the two halves of one tape filled by one id each
IdSchemes == {"fresh", "one", "tie", "halves"}

StatId(scheme, x, j) ==
    CASE scheme = "one" /\ x = 0 -> Id32(7)
      [] scheme = "tie" /\ x = 0 -> <<5, LIMB - 1>>
      [] scheme = "tie" /\ x = 1 -> Id32(9)
      [] scheme = "halves" /\ x = SOUP_SIZE - 1 ->
            (IF j < BFFO_HALF_LEN \div 2 THEN <<3, LIMB \div 2>> ELSE Id32(2))
      [] OTHER -> Id32(x * BFFO_HALF_LEN + j)

StatArena(a, b, scheme) ==
    [x \in Tapes |-> [j \in Half |->
        BFFO_MAKE_TOKEN(StatId(scheme, x, j), 0,
                        IF j < (a + b * x) % (BFFO_HALF_LEN + 1) THEN CH_PLUS ELSE 0)]]

StatArenas ==
    {StatArena(a, b, scheme) : a \in StatBases, b \in StatStrides, scheme \in IdSchemes}

InitStats ==
    /\ RunIdle
    /\ sampler = << >> /\ batch = << >> /\ bf = << >>
    /\ argv = << >>
    /\ soup \in StatArenas
    /\ seed = 0 /\ nthreads = 0 /\ epochs = 0 /\ stats_interval = 1
    /\ mutation_on = FALSE /\ runlog_on = FALSE
    /\ global_rng = Word(0)
    /\ next_token_id = Id32(0)
    /\ perm = [i \in Tapes |-> 0]
    /\ pair_steps = [i \in PairIdx |-> 0]
    /\ worker_args = << >>
    /\ pool_shutdown = FALSE
    /\ barrier_start = [count |-> 0, gen |-> 0]
    /\ barrier_end = [count |-> 0, gen |-> 0]
    /\ dpc = "stats0" /\ epoch = 0 /\ d_gen = 0
    /\ rows = << >> /\ runlog = << >>
    /\ wpc = << >> /\ w_i = << >> /\ w_rng = << >> /\ w_combined = << >>
    /\ w_gen = << >>
    /\ tape_access = << >> /\ steps_access = << >> /\ exec_count = << >>
    /\ issued = {} /\ n_issued = 0

NextStats == D_stats0

SpecStats == InitStats /\ [][NextStats]_vars

(***************************************************************************)
(* shuffle_perm on its own: the generator is seeded as main seeds it and   *)
(* the shuffle is called time after time.                                  *)
(***************************************************************************)
ShuffleSeeds == 60
MaxShuffles == 3

InitShuffle ==
    /\ RunIdle
    /\ sampler = << >> /\ batch = << >> /\ bf = << >>
    /\ SoupRest
    /\ seed \in 1 .. ShuffleSeeds
    /\ global_rng = SeedRng(seed)
    /\ perm = [i \in Tapes |-> 0]
    /\ epoch = 0
    /\ dpc = "shuffle"

ShuffleCall ==
    /\ dpc = "shuffle"
    /\ epoch < MaxShuffles
    /\ \E sh \in {shuffle_perm(global_rng)} :
          /\ perm' = sh.perm
          /\ global_rng' = sh.rng
    /\ epoch' = epoch + 1
    /\ UNCHANGED <<ivars, pvars, cvars, wvars, ovars, dpc, d_gen, rows, runlog, soup,
                   next_token_id, worker_args, pair_steps, pool_shutdown,
                   barrier_start, barrier_end>>

NextShuffle == ShuffleCall

SpecShuffle == InitShuffle /\ [][NextShuffle]_vars

(***************************************************************************)
(* mutate_soup on its own, called epoch after epoch from the loop of main, *)
(* early in a run and late in one.  A start gives the loop counter and the *)
(* id counter the run has got to: the first epoch; close to epoch 2^16     *)
(* after about one mutation an epoch; six million epochs on, after some    *)
(* 715 mutations an epoch.  The arena stands for what the earlier epochs   *)
(* left behind; of the ids given out so far those of initialisation are    *)
(* kept track of.                                                          *)
(***************************************************************************)
MaxMints == 4

MintStarts ==
    { [epoch |-> 1, next_id |-> Id32(SOUP_TOTAL_BYTES)],
      [epoch |-> LIMB - 2, next_id |-> Id32(SOUP_TOTAL_BYTES + LIMB - 3)],
      [epoch |-> 6000000, next_id |-> <<LIMB - 2, LIMB - 1>>] }

InitMint ==
    /\ RunIdle
    /\ sampler = << >> /\ batch = << >> /\ bf = << >>
    /\ argv = << >>
    /\ seed \in Seeds
    /\ \E a \in {InitArena(SeedRng(seed))} :
        /\ soup = a.soup
        /\ global_rng = a.rng
    /\ \E st \in MintStarts :
        /\ epoch = st.epoch
        /\ next_token_id = st.next_id
        /\ epochs = st.epoch + MaxMints - 1
    /\ issued = InitIds
    /\ n_issued = SOUP_TOTAL_BYTES
    /\ mutation_on = TRUE
    /\ dpc = "mutate"
    /\ nthreads = 0 /\ stats_interval = 0 /\ runlog_on = FALSE
    /\ perm = << >> /\ worker_args = << >> /\ pair_steps = << >>
    /\ pool_shutdown = FALSE
    /\ barrier_start = [count |-> 0, gen |-> 0]
    /\ barrier_end = [count |-> 0, gen |-> 0]
    /\ d_gen = 0 /\ rows = << >> /\ runlog = << >>
    /\ wpc = << >> /\ w_i = << >> /\ w_rng = << >> /\ w_combined = << >>
    /\ w_gen = << >>
    /\ tape_access = << >> /\ steps_access = << >> /\ exec_count = << >>

\* lines 300-302: epoch <= epochs; mutate_soup(mutation_rate, epoch); epoch++
MintCall ==
    /\ dpc = "mutate"
    /\ epoch <= epochs
    /\ MutateCall
    /\ epoch' = epoch + 1
    /\ UNCHANGED <<ivars, pvars, cvars, wvars, dpc, d_gen, rows, runlog, perm,
                   worker_args, pair_steps, pool_shutdown, barrier_start,
                   barrier_end, tape_access, steps_access, exec_count>>

NextMint == MintCall

SpecMint == InitMint /\ [][NextMint]_vars

(***************************************************************************)
(* The epochs of soup_orig.c run by one thread: worker 0's slice first,    *)
(* then worker 1's, and so on, each pair loaded, run and stored in turn.   *)
(* No mutation.                                                            *)
(***************************************************************************)
\* worker_thread, lines 112-127, for the pair indices i .. end - 1
RECURSIVE SeqSlice(_, _, _, _, _, _)
SeqSlice(arena, st, p, i, end, r) ==
    IF i >= end THEN [soup |-> arena, steps |-> st]
    ELSE LET ai == p[PairA(i)]
             bi == p[PairB(i)]
             e == ExecPair(Combine(arena, ai, bi), r)
         IN  SeqSlice(StoreBack(arena, ai, bi, e.combined),
                      [st EXCEPT ![i] = e.steps], p, i + 1, end, e.rng)

\* the workers t .. n - 1 one after the other
RECURSIVE SeqWorkers(_, _, _, _, _, _)
SeqWorkers(arena, st, p, seeds, t, n) ==
    IF t >= n THEN [soup |-> arena, steps |-> st]
    ELSE LET sl == WorkerSlice(t, n, NPAIRS)
             done == SeqSlice(arena, st, p, sl.start, sl.end, seeds[t + 1])
         IN  SeqWorkers(done.soup, done.steps, p, seeds, t + 1, n)

\* soup_epoch, lines 138-142, from the state g of n workers
SeqEpoch(g, n) ==
    LET sh == shuffle_perm(g.rng)
        seeds == Stream(sh.rng, n)
        done == SeqWorkers(g.soup, g.steps, sh.perm, seeds, 0, n)
    IN  [soup |-> done.soup, steps |-> done.steps, rng |-> seeds[n],
         next_id |-> g.next_id, perm |-> sh.perm]

\* the state after epoch e of the run of seed sd with n workers
RECURSIVE SeqRun(_, _, _)
SeqRun(sd, n, e) ==
    IF e = 0
    THEN LET a == InitArena(SeedRng(sd))
         IN  [soup |-> a.soup, steps |-> [i \in PairIdx |-> 0],
              rng |-> a.rng, next_id |-> a.next_id,
              perm |-> [i \in Tapes |-> 0]]
    ELSE SeqEpoch(SeqRun(sd, n, e - 1), n)

\* the sequential runs of every configuration
SeqRuns ==
    {[seed |-> sd, nthreads |-> n, epoch |-> e, state |-> SeqRun(sd, n, e)] :
        sd \in Seeds, n \in 1 .. MaxThreads, e \in 0 .. MaxEpochs}

SeqState(sd, n, e) ==
    (CHOOSE c \in SeqRuns : c.seed = sd /\ c.nthreads = n /\ c.epoch = e).state

(***************************************************************************)
(* Claims about bffo_run                                                   *)
(***************************************************************************)
Dispatching(c) == pc = "loop" /\ LoopCond(Cur) /\ BFFO_TOKEN_CHAR(tape[ip]) = c

OthersUnchanged(k) == \A j \in Cells \ {k} : tape'[j] = tape[j]

\* C1 (as stated): once the byte at ip = 127 has been dispatched the
\* interpreter returns; no further step follows a step taken at ip = 127.
C1_ReturnsAfter127 ==
    [][(pc = "loop" /\ LoopCond(Cur) /\ ip = BFFO_TAPE_LEN - 1)
            => pc' = "returned"]_vars

\* C1 (amended): a step taken at ip = 127 returns unless it is a ']' that
\* jumps (stack not empty, byte under head0 not zero); the instruction
\* pointer never wraps: a step that does not return leaves ip one past
\* either the old ip or the bracket position on top of the stack, in 1..127.
C1_NoWrap ==
    [][(pc = "loop" /\ LoopCond(Cur)) =>
          /\ (ip = BFFO_TAPE_LEN - 1 /\ ~TakesJump(Cur)) => pc' = "returned"
          /\ pc' = "loop" =>
                /\ ip' = (IF TakesJump(Cur) THEN stack[sp - 1] ELSE ip) + 1
                /\ ip' \in 1 .. (BFFO_TAPE_LEN - 1)]_vars

\* a run that jumped back from cell 127 and later returned from cell 127
C1_Witness ==
    /\ pc = "returned"
    /\ ip = BFFO_TAPE_LEN - 1
    /\ steps > BFFO_TAPE_LEN
    /\ BFFO_TOKEN_CHAR(tape[BFFO_TAPE_LEN - 1]) = CH_RBRACK

\* C2: every run of bffo_run returns, and the step count it returns is in
\* 1 .. 8192 (the terminating instruction is counted).
C2_Terminates ==
    /\ <>(pc = "returned")
    /\ [](steps \in 0 .. BFFO_MAX_STEPS)
    /\ [](pc = "returned" => steps \in 1 .. BFFO_MAX_STEPS)

\* a run ended by the step limit
C2_Witness == pc = "returned" /\ steps = BFFO_MAX_STEPS

(***************************************************************************)
(* Claims about the soup driver                                            *)
(***************************************************************************)
\* the tapes of pair i
PairOf(i) == {perm[PairA(i)], perm[PairB(i)]}

\* C3: after every call of shuffle_perm, perm is a permutation of the arena
\* indices, every arena index lies in exactly one pair
\* (perm[i], perm[i + NPAIRS]), and the two members of a pair differ.
C3_PermutationPairs ==
    epoch >= 1 =>
        /\ DOMAIN perm = Tapes
        /\ \A x \in Tapes : Cardinality({k \in Tapes : perm[k] = x}) = 1
        /\ \A x \in Tapes : Cardinality({i \in PairIdx : x \in PairOf(i)}) = 1
        /\ \A i \in PairIdx : perm[PairA(i)] # perm[PairB(i)]

\* a second call of shuffle_perm has returned an order that is not the
\* identity
C3_Witness ==
    /\ dpc = "shuffle"
    /\ epoch = 2
    /\ perm # [i \in Tapes |-> i]

\* C4: within an epoch, whatever the interleaving, no arena tape and no
\* pair_steps entry is read or written by two different workers; the
\* workers' slices are pairwise disjoint and so are the tapes of two pairs.
C4_NoSharedCell ==
    /\ \A x \in Tapes : Cardinality(tape_access[x]) <= 1
    /\ \A i \in PairIdx : Cardinality(steps_access[i]) <= 1
    /\ \A t, u \in Workers :
          t # u =>
             (  (worker_args[t].start .. (worker_args[t].end - 1))
                \cap (worker_args[u].start .. (worker_args[u].end - 1)) = {} )
    /\ (dpc \in {"in_start", "in_end"} =>
          \A i, k \in PairIdx : i # k => PairOf(i) \cap PairOf(k) = {})

\* two workers hold a pair each at the same time, every tape of the arena
\* taken by one of them
C4_Witness ==
    /\ nthreads = 2
    /\ wpc[0] = "store" /\ wpc[1] = "store"
    /\ \A x \in Tapes : tape_access[x] # {}
    /\ \E x, y \in Tapes : tape_access[x] = {0} /\ tape_access[y] = {1}

\* the driver is between its return from the end barrier (or the start of
\* the run) and its arrival at the next start barrier
Quiet ==
    \/ dpc \in {"create", "open", "stats0", "top", "runlog", "stats"}
    \/ dpc = "in_end" /\ Released(barrier_end, d_gen)

\* worker t is in its slice-processing section, lines 111-127
InSlice(t) == wpc[t] \in {"loop", "store"}

\* C5: between the driver's return from the end barrier of an epoch and
\* its arrival at the start barrier of the next, every worker is outside
\* its slice-processing section, so none reads or writes the arena, perm,
\* pair_steps or its seed; the arena is written by the mutator alone, and
\* shuffle, seeding, mutator, run-log append and stats run in that interval.
C5_Quiescence ==
    /\ [](Quiet => \A t \in Workers : ~InSlice(t))
    /\ [][Quiet =>
            /\ pair_steps' = pair_steps
            /\ w_rng' = w_rng
            /\ w_combined' = w_combined
            /\ (soup' # soup => dpc = "in_end" /\ dpc' = "runlog" /\ mutation_on)
         ]_vars
    /\ [][(perm' # perm \/ worker_args' # worker_args \/ runlog' # runlog
              \/ rows' # rows \/ global_rng' # global_rng
              \/ next_token_id' # next_token_id)
            => Quiet /\ \A t \in Workers : ~InSlice(t)]_vars

\* the mutator has written a token while one worker already waits for the
\* next epoch and the other has not yet left the end barrier
C5_Witness ==
    /\ mutation_on
    /\ dpc = "runlog"
    /\ Lt32(Id32(SOUP_TOTAL_BYTES), next_token_id)
    /\ nthreads = 2
    /\ \E t, u \in Workers : wpc[t] = "in_start" /\ wpc[u] = "in_end"

\* soup_orig.c, line 16: SOUP_SIZE is 1 << 17
FullSoupBits == 17

\* the slices of n workers over np pair indices follow one another from 0
\* to np
SlicesPartition(n, np) ==
    /\ WorkerSlice(0, n, np).start = 0
    /\ WorkerSlice(n - 1, n, np).end = np
    /\ \A t \in 0 .. (n - 1) : WorkerSlice(t, n, np).start <= WorkerSlice(t, n, np).end
    /\ \A t \in 0 .. (n - 2) : WorkerSlice(t, n, np).end = WorkerSlice(t + 1, n, np).start

\* the slices of the arena as built, for every thread count main accepts
FullSlicesPartition ==
    \A n \in 1 .. MAX_THREADS : SlicesPartition(n, 2 ^ (FullSoupBits - 1))

\* the workers are past the end barrier of the epoch under way
EpochDone ==
    \/ dpc \in {"runlog", "stats"}
    \/ dpc = "in_end" /\ Released(barrier_end, d_gen)

\* C6: for every thread count in 1 .. MAX_THREADS the slices partition the
\* pair indices; in every epoch each pair index is executed exactly once,
\* by the one worker that owns it, between the start and end barriers, so
\* every tape takes part in exactly one pair execution.
C6_EveryPairOnce ==
    /\ FullSlicesPartition
    /\ SlicesPartition(nthreads, NPAIRS)
    /\ \A t \in Workers :
          worker_args[t].start = WorkerSlice(t, nthreads, NPAIRS).start
          /\ worker_args[t].end = WorkerSlice(t, nthreads, NPAIRS).end
    /\ \A i \in PairIdx : exec_count[i] <= 1
    /\ \A i \in PairIdx :
          exec_count[i] = 1 =>
             \E t \in Workers :
                /\ steps_access[i] = {t}
                /\ worker_args[t].start <= i /\ i < worker_args[t].end
    /\ EpochDone =>
          /\ \A i \in PairIdx : exec_count[i] = 1
          /\ \A x \in Tapes :
                Cardinality({i \in PairIdx : exec_count[i] = 1 /\ x \in PairOf(i)}) = 1

\* the second epoch of two workers is over, each pair run once
C6_Witness ==
    /\ nthreads = 2
    /\ epoch = 2
    /\ dpc = "runlog"
    /\ \A i \in PairIdx : exec_count[i] = 1
    /\ steps_access[0] # steps_access[NPAIRS - 1]

\* C7: with mutation rate 0, the arena (every token whole), next_token_id
\* and pair_steps at every epoch boundary are those of the sequential run
\* of the same seed and thread count, whatever the interleaving of the
\* workers: two runs of one seed and one thread count agree.
C7_Deterministic ==
    (~mutation_on /\ EpochDone) =>
        /\ soup = SeqState(seed, nthreads, epoch).soup
        /\ next_token_id = SeqState(seed, nthreads, epoch).next_id
        /\ pair_steps = SeqState(seed, nthreads, epoch).steps

\* the second epoch of two workers without mutation is over, and the arena
\* is no longer the initial one
C7_Witness ==
    /\ ~mutation_on
    /\ nthreads = 2
    /\ epoch = 2
    /\ dpc = "runlog"
    /\ soup # SeqState(seed, nthreads, 0).soup
    /\ soup # SeqState(seed, nthreads, 1).soup

\* the call is the tape '[' ',' ']' ']' with zero under head0 and 99 under
\* head1, both heads outside cells 0..3
IsPushScenario ==
    /\ \A k \in Cells :
          BFFO_TOKEN_CHAR(arg_tape[k]) =
             (CASE k = 0 -> CH_LBRACK
                [] k = 1 -> CH_COMMA
                [] k \in {2, 3} -> CH_RBRACK
                [] k = arg_head1 -> 99
                [] OTHER -> 0)
    /\ arg_head0 \notin 0 .. 3
    /\ arg_head1 \notin 0 .. 3
    /\ arg_head0 # arg_head1

\* C8: '[' pushes whatever the byte under head0 is, and the next step is the
\* first instruction of the loop body; the tape '[' ',' ']' ']' run with a
\* zero under head0 and 99 under head1 (heads outside cells 0..3) returns
\* with 99 under head0.
C8_PushUnconditional ==
    /\ [][(Dispatching(CH_LBRACK) /\ sp < BFFO_STACK_DEPTH) =>
             /\ sp' = sp + 1
             /\ stack'[sp] = ip
             /\ tape' = tape
             /\ IF ip = BFFO_TAPE_LEN - 1 THEN pc' = "returned"
                ELSE pc' = "loop" /\ ip' = ip + 1]_vars
    /\ [](pc = "returned" /\ IsPushScenario
             => BFFO_TOKEN_CHAR(tape[arg_head0]) = 99)

\* the scenario has returned; '[' was dispatched over a zero byte
C8_Witness ==
    /\ pc = "returned"
    /\ IsPushScenario
    /\ BFFO_TOKEN_CHAR(arg_tape[arg_head0]) = 0
    /\ BFFO_TOKEN_CHAR(tape[arg_head0]) = 99
    /\ sp = 1

\* C9: a '+' or '-' step leaves id, epoch and reserved of the cell under
\* head0 as they were and moves its char by +1 or -1 modulo 256; no other
\* cell changes.
C9_ArithmeticKeepsMetadata ==
    [][/\ Dispatching(CH_PLUS) =>
            /\ tape'[head0] =
                 [id |-> tape[head0].id, epoch |-> tape[head0].epoch,
                  reserved |-> tape[head0].reserved,
                  char |-> (tape[head0].char + 1) % 256]
            /\ OthersUnchanged(head0)
       /\ Dispatching(CH_MINUS) =>
            /\ tape'[head0] =
                 [id |-> tape[head0].id, epoch |-> tape[head0].epoch,
                  reserved |-> tape[head0].reserved,
                  char |-> (tape[head0].char + 255) % 256]
            /\ OthersUnchanged(head0)]_vars

\* '+' '+' '-' over a byte 255: the char wrapped to 0 and came back to 0
\* through 1, the token is otherwise the one that was passed in
C9_Witness ==
    /\ pc = "returned"
    /\ BFFO_TOKEN_CHAR(arg_tape[0]) = CH_PLUS
    /\ BFFO_TOKEN_CHAR(arg_tape[2]) = CH_MINUS
    /\ BFFO_TOKEN_CHAR(arg_tape[arg_head0]) = 255
    /\ tape[arg_head0] = [arg_tape[arg_head0] EXCEPT !.char = 0]
    /\ tape[arg_head0].id # Id32(0)
    /\ tape[arg_head0].reserved # 0

\* C10: a '.' step makes the whole token at head1 equal to the token that
\* was at head0, a ',' step makes the whole token at head0 equal to the one
\* that was at head1; the heads do not move and no other cell changes.
C10_CopiesWholeToken ==
    [][/\ Dispatching(CH_DOT) =>
            /\ tape'[head1] = tape[head0]
            /\ OthersUnchanged(head1)
            /\ head0' = head0 /\ head1' = head1
       /\ Dispatching(CH_COMMA) =>
            /\ tape'[head0] = tape[head1]
            /\ OthersUnchanged(head0)
            /\ head0' = head0 /\ head1' = head1]_vars

\* ',' '}' '.' : the token passed in under head1 now sits under head0 and
\* in the cell after head1
C10_Witness ==
    /\ pc = "returned"
    /\ BFFO_TOKEN_CHAR(arg_tape[0]) = CH_COMMA
    /\ BFFO_TOKEN_CHAR(arg_tape[2]) = CH_DOT
    /\ arg_head0 # arg_head1
    /\ tape[arg_head0] = arg_tape[arg_head1]
    /\ tape[arg_head1 + 1] = arg_tape[arg_head1]
    /\ arg_tape[arg_head1].id # arg_tape[arg_head0].id

\* cell by cell, the chars of two tapes
SameChars(t, u) == \A k \in Cells : BFFO_TOKEN_CHAR(t[k]) = BFFO_TOKEN_CHAR(u[k])

\* C11: two calls of bffo_run with the same heads on tapes whose chars are
\* equal cell by cell run in lockstep (same heads, ip and bracket stack,
\* chars equal after every step) whatever the ids, epochs and reserved
\* bytes are; they return the same step count and leave tapes whose chars
\* are equal cell by cell.
C11_MetadataNeverRead ==
    twin # << >> =>
        /\ SameChars(tape, twin.tape)
        /\ twin.head0 = head0 /\ twin.head1 = head1
        /\ twin.ip = ip /\ twin.sp = sp /\ twin.stack = stack
        /\ twin.steps = steps
        /\ twin.ret = (pc = "returned")

\* both calls have returned from a loop that tested and rewrote the cell
\* under head0, a cell whose three metadata fields all differ between the
\* two tapes
C11_Witness ==
    /\ twin # << >>
    /\ pc = "returned" /\ twin.ret
    /\ twin.steps > BFFO_TAPE_LEN
    /\ BFFO_TOKEN_CHAR(arg_tape[arg_head0]) # BFFO_TOKEN_CHAR(tape[arg_head0])
    /\ twin.tape[arg_head0].id # tape[arg_head0].id
    /\ twin.tape[arg_head0].epoch # tape[arg_head0].epoch
    /\ twin.tape[arg_head0].reserved # tape[arg_head0].reserved

\* C12: no id is given to two freshly made tokens, at initialisation or by
\* the mutator in whatever epoch, and next_token_id never goes down.
C12_UniqueIds ==
    /\ [](Cardinality(issued) = n_issued)
    /\ [][next_token_id' = next_token_id
            \/ Lt32(next_token_id, next_token_id')]_vars

\* the call is on a tape that begins ']' '+'
IsEmptyCloseScenario ==
    /\ BFFO_TOKEN_CHAR(arg_tape[0]) = CH_RBRACK
    /\ BFFO_TOKEN_CHAR(arg_tape[1]) = CH_PLUS

\* C13: a ']' dispatched with an empty bracket stack ends the run at that
\* step, whatever the byte under head0: the step is counted, nothing else
\* changes; a tape that begins ']' '+' returns 1 with ip still 0 (the '+'
\* never dispatched) and the tape as it was passed in.
C13_EmptyCloseTerminates ==
    /\ [][(Dispatching(CH_RBRACK) /\ sp = 0) =>
             /\ pc' = "returned"
             /\ steps' = steps + 1
             /\ tape' = tape /\ ip' = ip /\ sp' = 0
             /\ head0' = head0 /\ head1' = head1]_vars
    /\ [](IsEmptyCloseScenario => ip = 0 /\ tape = arg_tape)
    /\ [](IsEmptyCloseScenario /\ pc = "returned" => steps = 1)

\* ']' '+' has returned after one step with a non-zero byte under head0
C13_Witness ==
    /\ IsEmptyCloseScenario
    /\ pc = "returned"
    /\ steps = 1
    /\ BFFO_TOKEN_CHAR(tape[head0]) # 0
    /\ tape = arg_tape

\* the call is on a tape with '[' in cells 0..64 and no instruction elsewhere
IsOverflowScenario ==
    \A k \in Cells :
        IF k <= BFFO_STACK_DEPTH
        THEN BFFO_TOKEN_CHAR(arg_tape[k]) = CH_LBRACK
        ELSE BFFO_TOKEN_CHAR(arg_tape[k]) \notin Instr

\* C14: a '[' dispatched with 64 entries on the bracket stack ends the run:
\* the step is counted, nothing is pushed, the tape is not written; with
\* '[' in cells 0..64 and no instruction elsewhere the run returns 65, the
\* stack never holds more than 64 entries and ip never gets to cell 65.
C14_OverflowTerminates ==
    /\ [][(Dispatching(CH_LBRACK) /\ sp >= BFFO_STACK_DEPTH) =>
             /\ pc' = "returned"
             /\ steps' = steps + 1
             /\ tape' = tape /\ ip' = ip
             /\ sp' = sp /\ stack' = stack]_vars
    /\ [](sp <= BFFO_STACK_DEPTH)
    /\ [](IsOverflowScenario =>
             /\ ip <= BFFO_STACK_DEPTH
             /\ tape = arg_tape
             /\ (pc = "returned" => steps = BFFO_STACK_DEPTH + 1))

\* the sixty-fifth '[' has ended the run on a full stack
C14_Witness ==
    /\ IsOverflowScenario
    /\ pc = "returned"
    /\ steps = BFFO_STACK_DEPTH + 1
    /\ sp = BFFO_STACK_DEPTH
    /\ ip = BFFO_STACK_DEPTH
    /\ \A k \in 0 .. (BFFO_STACK_DEPTH - 1) : stack[k] = k

\* the call is on the tape '[' '-' ']' ']', zero elsewhere but for a byte
\* 1..255 under head0, head0 outside cells 0..3
IsCountdown ==
    /\ arg_head0 \notin 0 .. 3
    /\ BFFO_TOKEN_CHAR(arg_tape[arg_head0]) \in 1 .. 255
    /\ \A k \in Cells :
          BFFO_TOKEN_CHAR(arg_tape[k]) =
             (CASE k \in 0 .. 3 -> CountdownProg[k + 1]
                [] k = arg_head0 -> BFFO_TOKEN_CHAR(arg_tape[arg_head0])
                [] OTHER -> 0)

\* C15: '[' '-' ']' ']' run with a byte v in 1..255 under head0 (head0
\* outside cells 0..3) returns after 2 v + 2 steps, short of the step
\* limit, with a zero byte under head0: one '[', then '-' and ']' v times
\* each (after step s of the loop the byte is v less s / 2), then the ']'
\* that finds the stack empty; no other cell changes.
C15_Countdown ==
    IsCountdown =>
        LET v == BFFO_TOKEN_CHAR(arg_tape[arg_head0]) IN
        /\ \A k \in Cells \ {arg_head0} : tape[k] = arg_tape[k]
        /\ head0 = arg_head0
        /\ pc = "loop" =>
              /\ steps <= 2 * v + 1
              /\ BFFO_TOKEN_CHAR(tape[head0]) = v - (steps \div 2)
        /\ pc = "returned" =>
              /\ steps = 2 * v + 2
              /\ steps < BFFO_MAX_STEPS
              /\ ip = 3
              /\ tape[head0] = [arg_tape[head0] EXCEPT !.char = 0]

\* the countdown from 255 has returned, head0 in the last cell of the tape
C15_Witness ==
    /\ IsCountdown
    /\ BFFO_TOKEN_CHAR(arg_tape[arg_head0]) = 255
    /\ arg_head0 = BFFO_TAPE_LEN - 1
    /\ pc = "returned"
    /\ steps = 512
    /\ BFFO_TOKEN_CHAR(tape[arg_head0]) = 0

\* C16: '<' and '>' move head0, '{' and '}' move head1, by one cell modulo
\* 128 (0 - 1 is 127, 127 + 1 is 0), leaving the other head and the tape
\* alone; head0 and head1 are in 0..127 in every state of every run.
C16_HeadsWrap ==
    /\ [](head0 \in Cells /\ head1 \in Cells)
    /\ [][/\ Dispatching(CH_LT) =>
               /\ head0' = (IF head0 = 0 THEN BFFO_TAPE_LEN - 1 ELSE head0 - 1)
               /\ head1' = head1 /\ tape' = tape
          /\ Dispatching(CH_GT) =>
               /\ head0' = (IF head0 = BFFO_TAPE_LEN - 1 THEN 0 ELSE head0 + 1)
               /\ head1' = head1 /\ tape' = tape
          /\ Dispatching(CH_LBRACE) =>
               /\ head1' = (IF head1 = 0 THEN BFFO_TAPE_LEN - 1 ELSE head1 - 1)
               /\ head0' = head0 /\ tape' = tape
          /\ Dispatching(CH_RBRACE) =>
               /\ head1' = (IF head1 = BFFO_TAPE_LEN - 1 THEN 0 ELSE head1 + 1)
               /\ head0' = head0 /\ tape' = tape]_vars

\* '>' '+' called with head0 = 127 has returned: head0 is 0 and the '+'
\* went to cell 0, the '>' itself
C16_Witness ==
    /\ pc = "returned"
    /\ arg_head0 = BFFO_TAPE_LEN - 1
    /\ BFFO_TOKEN_CHAR(arg_tape[0]) = CH_GT
    /\ BFFO_TOKEN_CHAR(arg_tape[1]) = CH_PLUS
    /\ head0 = 0
    /\ BFFO_TOKEN_CHAR(tape[0]) = CH_GT + 1

\* C17: a ',' step leaves both heads where they are and the source cell
\* tape[head1] as it was, and ends with the destination tape[head0] equal
\* to the source; so a ',' step that follows one with no head move in
\* between finds destination and source equal and changes nothing.
C17_CommaIdempotent ==
    [][Dispatching(CH_COMMA) =>
          /\ head0' = head0 /\ head1' = head1
          /\ tape'[head1] = tape[head1]
          /\ tape'[head0'] = tape'[head1']
          /\ (tape[head0] = tape[head1] => tape' = tape)
          /\ OpComma(OpComma(Cur)).tape = tape']_vars

\* ',' ',' has returned: both were dispatched as written, the heads are
\* where they were put, the destination holds the source token
C17_Witness ==
    /\ pc = "returned"
    /\ BFFO_TOKEN_CHAR(tape[0]) = CH_COMMA
    /\ BFFO_TOKEN_CHAR(tape[1]) = CH_COMMA
    /\ steps >= 2
    /\ arg_head0 # arg_head1
    /\ head0 = arg_head0 /\ head1 = arg_head1
    /\ arg_tape[arg_head0] # arg_tape[arg_head1]
    /\ tape[head0] = arg_tape[head1]
    /\ tape[head1] = arg_tape[head1]

\* the call is on a tape whose 128 chars are all 0
IsZeroTape == \A k \in Cells : BFFO_TOKEN_CHAR(arg_tape[k]) = 0

\* C18: on a tape of 128 zero chars, whatever the heads, every step is a
\* no-op (tape, heads and stack stay as they were, ip counts the steps
\* taken); the run returns 128 from ip = 127 with every token unchanged.
C18_ZeroTape ==
    IsZeroTape =>
        /\ tape = arg_tape
        /\ head0 = arg_head0 /\ head1 = arg_head1
        /\ sp = 0
        /\ pc = "loop" => ip = steps /\ steps < BFFO_TAPE_LEN
        /\ pc = "returned" => steps = BFFO_TAPE_LEN /\ ip = BFFO_TAPE_LEN - 1

\* the tape of zeros has been run through with head0 in the last cell and
\* head1 in the first
C18_Witness ==
    /\ IsZeroTape
    /\ arg_head0 = BFFO_TAPE_LEN - 1 /\ arg_head1 = 0
    /\ pc = "returned"
    /\ steps = BFFO_TAPE_LEN
    /\ tape = arg_tape

\* the call is on a tape with '+' in cell 0 and char 0 elsewhere, head0 = 50
IsIncrement ==
    /\ arg_head0 = 50
    /\ \A k \in Cells :
          BFFO_TOKEN_CHAR(arg_tape[k]) = (IF k = 0 THEN CH_PLUS ELSE 0)

\* C19: '+' in cell 0 of a tape of zeros, head0 = 50: the first step is the
\* only '+' dispatched; from then on cell 50 holds char 1 with the id,
\* epoch and reserved byte it came with and no other cell has changed; the
\* run goes on over the no-op cells and returns 128 from ip = 127.
C19_Increment ==
    IsIncrement =>
        /\ Dispatching(CH_PLUS) => ip = 0 /\ steps = 0
        /\ steps = 0 => tape = arg_tape
        /\ steps >= 1 =>
              /\ tape[50] = [arg_tape[50] EXCEPT !.char = 1]
              /\ BFFO_TOKEN_ID(tape[50]) = BFFO_TOKEN_ID(arg_tape[50])
              /\ \A k \in Cells \ {50} : tape[k] = arg_tape[k]
        /\ pc = "loop" => ip = steps
        /\ pc = "returned" => steps = BFFO_TAPE_LEN /\ ip = BFFO_TAPE_LEN - 1

\* the increment has returned 128 with char 1 under head0
C19_Witness ==
    /\ IsIncrement
    /\ pc = "returned"
    /\ steps = BFFO_TAPE_LEN
    /\ BFFO_TOKEN_CHAR(arg_tape[50]) = 0
    /\ BFFO_TOKEN_CHAR(tape[50]) = 1
    /\ BFFO_TOKEN_ID(tape[50]) = Id32(1050)

\* C20: the tokens of initialisation carry epoch 0, and a token written by
\* the mutator in epoch e carries epoch e, whatever epoch the loop of main
\* has got to.  (That '.' and ',' keep the epoch of the token they copy is
\* part of C10.)
C20_EpochOfMinting ==
    /\ [](n_issued = SOUP_TOTAL_BYTES =>
             \A i \in Tapes, j \in Half : BFFO_TOKEN_EPOCH(soup[i][j]) = 0)
    /\ [][next_token_id' # next_token_id =>
             \A i \in Tapes, j \in Half :
                soup'[i][j] # soup[i][j] => BFFO_TOKEN_EPOCH(soup'[i][j]) = epoch]_vars


(***************************************************************************)
(* Claims about the run of the driver as a whole                          *)
(***************************************************************************)
\* the driver is inside pthread_barrier_wait or pthread_join and cannot
\* return from it
DriverWaits ==
    \/ dpc = "in_start" /\ ~Released(barrier_start, d_gen)
    \/ dpc = "in_end" /\ ~Released(barrier_end, d_gen)
    \/ dpc = "join" /\ ~Released(barrier_start, d_gen)
    \/ dpc = "join" /\ \E t \in Workers : wpc[t] = "nothread"

\* worker t is inside pthread_barrier_wait and cannot return from it, or
\* was never started, or has returned
WorkerWaits(t) ==
    \/ wpc[t] = "in_start" /\ ~Released(barrier_start, w_gen[t])
    \/ wpc[t] = "in_end" /\ ~Released(barrier_end, w_gen[t])
    \/ wpc[t] \in {"unborn", "nothread", "exit"}

\* C21: the run never comes to a stop at a barrier: until main returns some
\* thread can take a step; once the shutdown flag is set no worker is in
\* its slice-processing section; and main returns 0 only after the last
\* epoch, with every worker gone.
C21_NoBarrierDeadlock ==
    /\ ~(DriverWaits /\ \A t \in Workers : WorkerWaits(t))
    /\ pool_shutdown => \A t \in Workers : ~InSlice(t)
    /\ dpc = "done" => epoch = epochs + 1 /\ \A t \in Workers : wpc[t] = "exit"

\* C27: the creation of the workers is checked: when pthread_create has
\* failed for a worker, the driver does not go on to wait at a barrier made
\* for nthreads + 1 parties.
C27_CreationChecked ==
    (\E t \in Workers : wpc[t] = "nothread") =>
        dpc \notin {"in_start", "in_end", "join"}

\* the number of epochs whose run-log append is done
LoggedEpochs ==
    CASE dpc \in {"create", "open", "stats0", "failed"} -> 0
      [] dpc = "stats" -> epoch
      [] OTHER -> epoch - 1

\* the values of the run log written for epoch e, by pair index
LogBlock(e) == [i \in PairIdx |-> runlog[(e - 1) * NPAIRS + i + 1]]

\* C22: with the run log enabled, once e epochs are logged the log holds
\* e * NPAIRS values; the block of an epoch is pair_steps in pair-index
\* order as it stands after that epoch's workers, every entry written in
\* that epoch by the one execution of its pair; without mutation the blocks
\* are the step counts of the sequential run of the same seed.
C22_RunLog ==
    /\ [](Len(runlog) = IF runlog_on THEN LoggedEpochs * NPAIRS ELSE 0)
    /\ [][runlog' # runlog =>
            /\ dpc = "runlog" /\ dpc' = "stats"
            /\ \A k \in 1 .. Len(runlog) : runlog'[k] = runlog[k]
            /\ \A i \in PairIdx :
                  /\ runlog'[(epoch - 1) * NPAIRS + i + 1] = pair_steps[i]
                  /\ exec_count[i] = 1]_vars
    /\ []((runlog_on /\ ~mutation_on) =>
            \A e \in 1 .. LoggedEpochs :
                LogBlock(e) = SeqState(seed, nthreads, e).steps)

\* two epochs are logged, and the step counts of the second differ from
\* those of the first
C22_Witness ==
    /\ runlog_on
    /\ dpc = "stats" /\ epoch = 2
    /\ Len(runlog) = 2 * NPAIRS
    /\ LogBlock(1) # LogBlock(2)
    /\ \A i \in PairIdx : LogBlock(2)[i] = pair_steps[i]

(***************************************************************************)
(* Claims about the start of the run                                       *)
(***************************************************************************)
\* the six flags of lines 237-242
KnownFlags ==
    {"--epochs", "--threads", "--seed", "--stats", "--mutation", "--runlog"}

\* some argument from argv[i] on is neither a known flag nor the value
\* taken by one
RECURSIVE HasUnknownFrom(_, _)
HasUnknownFrom(args, i) ==
    IF i >= Len(args) THEN FALSE
    ELSE IF args[i + 1] \in KnownFlags THEN HasUnknownFrom(args, i + 2)
    ELSE TRUE

\* no epoch has started: no shuffle, no pair executed, nothing printed or
\* logged
NoEpochRun ==
    /\ epoch = 0
    /\ perm = [i \in Tapes |-> 0]
    /\ pair_steps = [i \in PairIdx |-> 0]
    /\ \A i \in PairIdx : exec_count[i] = 0
    /\ rows = << >> /\ runlog = << >>
    /\ \A t \in Workers : ~InSlice(t)

\* the arena is as the loader left it: lines 255-260 have not run
ArenaUntouched ==
    /\ next_token_id = Id32(0)
    /\ \A x \in Tapes : \A j \in Half : soup[x][j] = BFFO_MAKE_TOKEN(Id32(0), 0, 0)

\* C25 (as stated): when the run log cannot be opened, main returns 1 with
\* the arena not initialised, no worker thread created and no epoch run.
C25_LogFailBeforeArena ==
    dpc = "failed" =>
        /\ ExitCode = 1
        /\ ArenaUntouched
        /\ \A t \in Workers : wpc[t] = "unborn"
        /\ NoEpochRun

\* C25 (amended): when the run log cannot be opened, main returns 1 before
\* any epoch runs: the arena is the initial arena of the seed and
\* pthread_create has been called for every worker, but nothing has been
\* shuffled, executed, printed or logged; a run without --runlog never
\* ends this way.
C25_LogFailBeforeEpoch ==
    dpc = "failed" =>
        /\ ExitCode = 1
        /\ runlog_on
        /\ soup = SeqState(seed, nthreads, 0).soup
        /\ next_token_id = Id32(SOUP_TOTAL_BYTES)
        /\ \A t \in Workers : wpc[t] \in {"start", "in_start", "nothread"}
        /\ NoEpochRun

\* the open has failed while one worker already waits at the start barrier
\* and the other has not yet called it
C25_Witness ==
    /\ dpc = "failed"
    /\ nthreads = 2
    /\ wpc[0] = "in_start" /\ wpc[1] = "start"
    /\ ~ArenaUntouched

\* C26: when some argument is neither a known flag nor the value of one,
\* wherever it stands, no epoch runs (nothing is shuffled, no pair is
\* executed) and main does not return 0.
C26_UnknownRejected ==
    HasUnknownFrom(argv, 1) =>
        /\ ExitCode # 0
        /\ perm = [i \in Tapes |-> 0]
        /\ \A i \in PairIdx : exec_count[i] = 0

\* the driver has not yet printed the row of epoch 0
BeforeRows ==
    dpc \in {"parse", "usage", "setup", "create", "open", "stats0", "failed"}

\* the steps of the driver within an epoch, in the order of lines 300-318
EpochOrder ==
    {<<"top", "in_start">>, <<"in_start", "in_end">>, <<"in_end", "runlog">>,
     <<"runlog", "stats">>, <<"stats", "top">>}

\* the stats of the initial arena of each seed
InitialStats ==
    [sd \in Seeds \cup FallbackSeeds |-> soup_stats(InitArena(SeedRng(sd)).soup)]

\* C23: one row for epoch 0 before any epoch runs, then a row after each
\* epoch that is a multiple of stats_interval and no other; within an epoch
\* the driver shuffles and seeds, the workers execute, the mutator runs,
\* the run log is appended and the stats are taken, in this order; the row
\* of an epoch describes the arena as the mutation of that epoch left it.
C23_StatsRows ==
    /\ [](Len(rows) = IF BeforeRows THEN 0 ELSE 1 + ((epoch - 1) \div stats_interval))
    /\ [](\A k \in 1 .. Len(rows) : rows[k].epoch = (k - 1) * stats_interval)
    /\ [](rows # << >> =>
            /\ rows[1].stats = InitialStats[seed]
            /\ rows[1].mean_steps = Ratio(0, 1)
            /\ rows[1].max_steps = 0)
    /\ [][(rows = << >> /\ rows' # << >>) => NoEpochRun]_vars
    /\ [][(dpc' # dpc /\ dpc \in {"in_start", "in_end", "runlog", "stats"})
            => <<dpc, dpc'>> \in EpochOrder]_vars
    /\ [][/\ perm' # perm => dpc = "top" /\ dpc' = "in_start"
          /\ exec_count' # exec_count =>
                \/ dpc = "top" /\ dpc' = "in_start"
                \/ dpc' = dpc /\ dpc \in {"in_start", "in_end"}
                      /\ ~Released(barrier_end, d_gen)
          /\ (next_token_id' # next_token_id /\ ~BeforeRows) =>
                dpc = "in_end" /\ dpc' = "runlog"
          /\ runlog' # runlog => dpc = "runlog" /\ dpc' = "stats"
          /\ (rows' # rows /\ rows # << >>) => dpc = "stats" /\ dpc' = "top"
          /\ dpc \in {"runlog", "stats"} => soup' = soup]_vars
    /\ []((dpc = "top" /\ epoch >= 2 /\ (epoch - 1) % stats_interval = 0) =>
            /\ rows[Len(rows)].epoch = epoch - 1
            /\ rows[Len(rows)].stats = soup_stats(soup)
            /\ rows[Len(rows)].mean_steps.num = pair_steps[0] + pair_steps[NPAIRS - 1]
                    + StepSum([i \in PairIdx |-> IF i \in {0, NPAIRS - 1} THEN 0
                                                 ELSE pair_steps[i]], 0)
            /\ \A i \in PairIdx : pair_steps[i] <= rows[Len(rows)].max_steps)

\* the row of epoch 2 is out, the second of a run that prints every other
\* epoch, and the arena it describes holds a token minted in epoch 2
C23_Witness ==
    /\ dpc = "top" /\ epoch = 3
    /\ stats_interval = 2
    /\ Len(rows) = 2
    /\ mutation_on
    /\ \E x \in Tapes : \E j \in Half : BFFO_TOKEN_EPOCH(soup[x][j]) = 2

(***************************************************************************)
(* Claims about the mutator and the statistics                             *)
(***************************************************************************)
\* the step is a call of mutate_soup with a positive rate
MutatorStep ==
    /\ mutation_on
    /\ \/ dpc = "in_end" /\ dpc' = "runlog"
       \/ dpc = "mutate" /\ epoch' = epoch + 1

\* the cells of the arena that the step has changed
ChangedCells == {c \in Tapes \X Half : soup'[c[1]][c[2]] # soup[c[1]][c[2]]}

\* C24: a call of the mutator that draws k mutations leaves next_token_id
\* larger by exactly k and writes at most k cells of the arena, each with a
\* token whose id is one of the k values the counter passed through, whose
\* epoch is the epoch of the call and whose char is a byte; every other
\* cell, perm and pair_steps are unchanged.
C24_MutatorFrame ==
    [][MutatorStep =>
        \E k \in {n_issued' - n_issued} :
            /\ k \in 0 .. MaxMutations
            /\ k = 0 => next_token_id' = next_token_id
            /\ k > 0 =>
                  /\ next_token_id' = Inc32(MintedIds(next_token_id, k)[k])
                  /\ Lt32(next_token_id, next_token_id')
            /\ Cardinality(ChangedCells) <= k
            /\ \A c \in ChangedCells :
                  /\ \E n \in 1 .. k :
                        BFFO_TOKEN_ID(soup'[c[1]][c[2]]) = MintedIds(next_token_id, k)[n]
                  /\ BFFO_TOKEN_EPOCH(soup'[c[1]][c[2]]) = epoch
                  /\ BFFO_TOKEN_CHAR(soup'[c[1]][c[2]]) \in 0 .. 255
            /\ perm' = perm
            /\ pair_steps' = pair_steps]_vars

\* the last row of the output is that of the arena as it stands: it has
\* just been printed and no epoch has started since
RowIsCurrent ==
    /\ dpc = "top"
    /\ rows # << >>
    /\ rows[Len(rows)].epoch = epoch - 1

LastStats == rows[Len(rows)].stats

\* the number of instruction bytes among the 64 cells of tape x
OpCount(x) ==
    Cardinality({j \in Half : BFFO_TOKEN_CHAR(soup[x][j]) \in Instr})

\* the op count at rank r (from 0) when the op counts of all tapes are put
\* in ascending order
OpCountAtRank(r) ==
    CHOOSE v \in 0 .. BFFO_HALF_LEN :
        /\ Cardinality({x \in Tapes : OpCount(x) < v}) <= r
        /\ r < Cardinality({x \in Tapes : OpCount(x) <= v})

\* C28: mean_ops is the sum of the op counts of the tapes divided by the
\* number of tapes, and median_ops is the midpoint of the two middle values
\* (ranks N/2 - 1 and N/2) of the op counts in ascending order; the op
\* count of a tape is the number of its cells whose char is an instruction.
C28_MeanMedian ==
    RowIsCurrent =>
        /\ LastStats.mean.num * SOUP_SIZE =
              LastStats.mean.den
                * Cardinality({c \in Tapes \X Half :
                                 BFFO_TOKEN_CHAR(soup[c[1]][c[2]]) \in Instr})
        /\ LastStats.mean.den > 0
        /\ LastStats.median.num * 2 =
              LastStats.median.den
                * (OpCountAtRank(SOUP_SIZE \div 2 - 1) + OpCountAtRank(SOUP_SIZE \div 2))
        /\ LastStats.median.den > 0

\* a row is out for an arena whose tapes differ in op count and whose two
\* middle op counts differ
C28_Witness ==
    /\ RowIsCurrent
    /\ OpCountAtRank(SOUP_SIZE \div 2 - 1) < OpCountAtRank(SOUP_SIZE \div 2)
    /\ LastStats.median.num = OpCountAtRank(SOUP_SIZE \div 2 - 1) + OpCountAtRank(SOUP_SIZE \div 2)
    /\ \E x, y \in Tapes : OpCount(x) # OpCount(y)

\* the ids present in the arena
IdsPresent == {BFFO_TOKEN_ID(soup[c[1]][c[2]]) : c \in Tapes \X Half}

\* the number of cells that carry the id
CellsWith(id) ==
    Cardinality({c \in Tapes \X Half : BFFO_TOKEN_ID(soup[c[1]][c[2]]) = id})

\* C29: unique_ids is the number of distinct ids in the arena, modal_count
\* the largest number of cells that share one id, and modal_id the smallest
\* id shared by that many cells.
C29_UniqueModal ==
    RowIsCurrent =>
        /\ LastStats.unique = Cardinality(IdsPresent)
        /\ LastStats.modal_id \in IdsPresent
        /\ LastStats.modal_count = CellsWith(LastStats.modal_id)
        /\ \A id \in IdsPresent :
              /\ CellsWith(id) <= LastStats.modal_count
              /\ CellsWith(id) = LastStats.modal_count => ~Lt32(id, LastStats.modal_id)

\* a row is out for an arena in which copies have made two ids tie for the
\* largest count, above 1
C29_Witness ==
    /\ RowIsCurrent
    /\ LastStats.modal_count >= 2
    /\ LastStats.unique < SOUP_TOTAL_BYTES
    /\ \E id \in IdsPresent :
          id # LastStats.modal_id /\ CellsWith(id) = LastStats.modal_count


(***************************************************************************)
(* The sampling loop of mutate_soup (soup_orig.c lines 68-76), on its own  *)
(* and at the program's real soup size.  A double that is a power of two   *)
(* is kept as its exponent: [zero |-> FALSE, exp |-> s] is 2^-s and        *)
(* [zero |-> TRUE, exp |-> 0] is 0.0.  Real numbers x >= 0 that are        *)
(* compared with natural logarithms are kept as the integer x * 10^5.      *)
(***************************************************************************)

\* SOUP_TOTAL_BYTES (line 62) at the program's soup size:
\* (uint32_t)(SOUP_SIZE) * BFFO_HALF_LEN = 2^23.
FullTotalBytes == (2 ^ FullSoupBits) * BFFO_HALF_LEN

\* ln 2, times 10^5.
LN2 == 69315

\* The smallest positive double is 2^-1074; a product below it is 0.0.
DBL_TRUE_MIN_EXP == 1074

\* The rates tried: 10^-e for e in this set (--mutation 1e-3, 1e-4, 1e-5).
RateExps == {3, 4, 5}

\* lambda = SOUP_TOTAL_BYTES * rate (line 68), times 10^5, for rate 10^-e
\* and the program's soup size.
Lambda(e) == FullTotalBytes * (10 ^ (5 - e))

\* The double 2^-s: 0.0 once s is past the last subnormal.
Pow2Neg(s) ==
    IF s > DBL_TRUE_MIN_EXP THEN [zero |-> TRUE, exp |-> 0]
    ELSE [zero |-> FALSE, exp |-> s]

\* exp(-lambda) (line 69) is 0.0 when the result is below half the smallest
\* positive double, that is when lambda > 1075 ln 2 (about 745.13).
ExpUnderflows(lam) == lam > (DBL_TRUE_MIN_EXP + 1) * LN2

\* p *= u for u = 2^-j (line 74).
MulPow2(p, j) == IF p.zero THEN p ELSE Pow2Neg(p.exp + j)

\* p > L (line 75), L = exp(-lam): 2^-s > e^-lam iff s ln 2 < lam.
GtExp(p, lam) ==
    IF p.zero THEN FALSE
    ELSE IF ExpUnderflows(lam) THEN TRUE
    ELSE p.exp * LN2 < lam

\* (double)(xorshift64(&global_rng) >> 11) * (1.0 / (double)(1ULL << 53))
\* (line 74) is 2^-j when the 53 bits kept are 2^(53 - j); the draws tried.
DrawExps == {8, 16}

\* Entry of mutate_soup with rate > 0 (lines 66-71): p = 1.0, k = 0.  The
\* fields n, sum and prev are observations: the number of draws made, and
\* the exponent of the product of the draws as a real number, now and before
\* the last draw.
InitPoisson ==
    /\ RunIdle
    /\ SoupRest
    /\ seed = 0 /\ perm = << >> /\ global_rng = Word(0)
    /\ dpc = "none" /\ epoch = 0
    /\ \E e \in RateExps :
        sampler = [at |-> "loop", lambda |-> Lambda(e), p |-> Pow2Neg(0),
                   k |-> 0, n |-> 0, sum |-> 0, prev |-> 0]
    /\ batch = << >> /\ bf = << >>

\* One turn of do { k++; p *= u; } while (p > L); and, when the loop is
\* left, the k-- after it (lines 72-76).
SampleDraw ==
    /\ sampler # << >>
    /\ sampler.at = "loop"
    /\ \E j \in DrawExps :
        \E q \in {MulPow2(sampler.p, j)} :
            sampler' = [sampler EXCEPT
                !.p = q,
                !.n = @ + 1,
                !.prev = sampler.sum,
                !.sum = @ + j,
                !.k = IF GtExp(q, sampler.lambda) THEN @ + 1 ELSE (@ + 1) - 1,
                !.at = IF GtExp(q, sampler.lambda) THEN "loop" ELSE "sampled"]
    /\ UNCHANGED <<ivars, cvars, gvars, dvars, wvars, ovars, batch, bf>>

NextPoisson == SampleDraw

SpecPoisson == InitPoisson /\ [][NextPoisson]_vars

\* C30: when the sampling loop of mutate_soup has been left, k is the number
\* of draws made minus one, and the product of the draws, as a real number,
\* was above exp(-lambda) before the last draw and is at or below it after
\* (Knuth's rule, which is what makes k Poisson with mean lambda).
C30_KnuthPoisson ==
    (sampler # << >> /\ sampler.at = "sampled") =>
        /\ sampler.k = sampler.n - 1
        /\ sampler.prev * LN2 < sampler.lambda
        /\ sampler.sum * LN2 >= sampler.lambda

(***************************************************************************)
(* The generator states.                                                   *)
(***************************************************************************)

\* 0xdeadbeefcafe1234 (line 252)
FallbackMask == <<4660, 51966, 48879, 57005>>

\* Addresses a uint64_t can have: multiples of 8, among them the one
\* nearest to the mask.
GlobalRngAddrs ==
    {<<8 * a, b, c, d>> : a \in {0, 1, 582, 8191}, b \in {0, 51966},
                          c \in {0, 48879}, d \in {0, 32767, 57005}}

\* (uint64_t)(uintptr_t)&global_rng ^ 0xdeadbeefcafe1234ULL (line 252)
FallbackState(addr) == Xor(addr, FallbackMask)

\* line 252 has been executed
Seeded == dpc \notin {"parse", "setup", "usage"}

\* worker t is inside its slice loop, where its local rng is live
\* (lines 111-124)
InSliceLoop(t) == wpc[t] \in {"loop", "store"}

IsSelfModScenario ==
    /\ arg_tape = TapeOf(Cfg(<<CH_PLUS, CH_DOT, CH_COMMA, CH_RBRACK>>, <<>>,
                             50, 0, 2, 0))
    /\ arg_head0 = 50 /\ arg_head1 = 2

\* a cell the instruction pointer is on no longer holds the byte it held on
\* entry
Overwritten == BFFO_TOKEN_CHAR(tape[ip]) # BFFO_TOKEN_CHAR(arg_tape[ip])

\* C32: what a pass through the loop does is decided by the byte that is in
\* tape[ip] at that pass: head0 moves only on '<' '>', head1 only on '{' '}',
\* the tape is written only on '+' '-' '.' ',', the stack depth changes only
\* on '[' ']'; and the run of '+' '.' ',' ']' with head0 = 50, head1 = 2
\* returns after 4 steps with cell 2 a copy of cell 50 and both chars 1.
C32_DispatchCurrent ==
    [][ /\ pc = "loop" =>
            LET c == BFFO_TOKEN_CHAR(tape[ip]) IN
            /\ head0' # head0 => c \in {CH_LT, CH_GT}
            /\ head1' # head1 => c \in {CH_LBRACE, CH_RBRACE}
            /\ tape' # tape => c \in {CH_PLUS, CH_MINUS, CH_DOT, CH_COMMA}
            /\ sp' # sp => c \in {CH_LBRACK, CH_RBRACK}
        /\ (pc' = "returned" /\ IsSelfModScenario) =>
            /\ steps' = 4
            /\ tape'[2] = tape'[50]
            /\ BFFO_TOKEN_CHAR(tape'[2]) = 1
            /\ BFFO_TOKEN_CHAR(tape'[50]) = 1
            /\ \A k \in Cells \ {2, 50} : tape'[k] = arg_tape[k]
      ]_vars

\* the run of the scenario is about to dispatch on cell 2, which '.' has
\* overwritten with the byte 1
C32_Witness ==
    /\ pc = "loop" /\ IsSelfModScenario
    /\ ip = 2 /\ Overwritten
    /\ BFFO_TOKEN_CHAR(tape[ip]) = 1

(***************************************************************************)
(* The 7-instruction interpreter bff_run(tape) (bff.h; the listing in      *)
(* experiment3.md, lines 110-152).  It shares the tape length, the token   *)
(* layout and the stack depth with bffo_run; '<' '>' '+' '-' '[' ']' are   *)
(* the same code.  One activation uses the state of the first group of     *)
(* variables.                                                              *)
(***************************************************************************)
BFF_MAX_STEPS == 16384
BFF_IP_START == 2

\* ',' with head1 left where it was
BffCommaNoAdvance(s) == [s EXCEPT !.tape[s.head1] = s.tape[s.head0]]

\* lines 126-129: the full token is copied from head0 to head1, then head1
\* moves on
BffComma(s) ==
    [s EXCEPT !.tape[s.head1] = s.tape[s.head0], !.head1 = MaskTape(s.head1 + 1)]

\* the switch of lines 120-147
BffDispatch(s) ==
    LET c == BFFO_TOKEN_CHAR(s.tape[s.ip]) IN
    CASE c = CH_LT -> [s EXCEPT !.head0 = MaskTape(s.head0 - 1)]
      [] c = CH_GT -> [s EXCEPT !.head0 = MaskTape(s.head0 + 1)]
      [] c = CH_PLUS -> OpPlus(s)
      [] c = CH_MINUS -> OpMinus(s)
      [] c = CH_COMMA -> BffComma(s)
      [] c = CH_LBRACK -> OpOpen(s)
      [] c = CH_RBRACK -> OpClose(s)
      [] OTHER -> s

\* line 149: ip = (ip + 1) & (BFF_TAPE_LEN - 1)
BffAdvance(s) == IF s.ret THEN s ELSE [s EXCEPT !.ip = MaskTape(s.ip + 1)]

BffIterate(s) == BffAdvance(BffDispatch(Count(s)))

\* line 118
BffLoopCond(s) == s.steps < BFF_MAX_STEPS

\* an entry that starts the instruction pointer at cell 0
BffEntryAtZero(t) ==
    [tape |-> t,
     head0 |-> BFFO_TOKEN_CHAR(t[0]) % BFFO_TAPE_LEN,
     head1 |-> BFFO_TOKEN_CHAR(t[1]) % BFFO_TAPE_LEN,
     ip |-> 0,
     stack |-> [k \in 0 .. (BFFO_STACK_DEPTH - 1) |-> -1],
     sp |-> 0, steps |-> 0, ret |-> FALSE]

\* lines 111-116
BffEntry(t) ==
    [tape |-> t,
     head0 |-> BFFO_TOKEN_CHAR(t[0]) % BFFO_TAPE_LEN,
     head1 |-> BFFO_TOKEN_CHAR(t[1]) % BFFO_TAPE_LEN,
     ip |-> BFF_IP_START,
     stack |-> [k \in 0 .. (BFFO_STACK_DEPTH - 1) |-> -1],
     sp |-> 0, steps |-> 0, ret |-> FALSE]

\* Input tapes: the bytes c0 and c1 in cells 0 and 1, a program from cell 2
\* on, the byte v0 in the cell head0 starts at; distinct tokens as in Blank.
BffTapeOf(c) ==
    [k \in Cells |->
        [Blank(k) EXCEPT !.char =
            IF k = 0 THEN c.c0
            ELSE IF k = 1 THEN c.c1
            ELSE IF k - BFF_IP_START < Len(c.prog) THEN c.prog[k - BFF_IP_START + 1]
            ELSE IF k = c.c0 % BFFO_TAPE_LEN THEN c.v0
            ELSE 0]]

BffCfg(a, b, p, x) == [c0 |-> a, c1 |-> b, prog |-> p, v0 |-> x]

BffMaxProgLen == 2

BffAlphabet == {CH_LT, CH_GT, CH_PLUS, CH_MINUS, CH_COMMA, CH_LBRACK, CH_RBRACK, 1}

\* every short program, closed by a ']' that ends the run
BffGenerated ==
    {BffCfg(50, 70, p \o <<CH_RBRACK>>, x) :
        p \in UNION {[1 .. n -> BffAlphabet] : n \in 0 .. BffMaxProgLen},
        x \in {0}}

BffScenarios ==
    {   \* the calls of test_bff.c
        BffCfg(50, 70, <<CH_COMMA, CH_RBRACK>>, 42),
        BffCfg(50, 70, <<CH_COMMA, CH_COMMA, CH_RBRACK>>, 7),
        BffCfg(50, 70, <<CH_RBRACK, CH_PLUS>>, 0),
        BffCfg(50, 70, <<CH_MINUS>>, 0),
        BffCfg(50, 70, <<CH_LBRACK, CH_MINUS, CH_RBRACK, CH_RBRACK>>, 5),
        BffCfg(50, 70, <<CH_LBRACK, CH_COMMA, CH_RBRACK, CH_RBRACK>>, 0),
        BffCfg(127, 70, <<CH_GT, CH_PLUS, CH_RBRACK>>, 0),
        BffCfg(0, 70, <<CH_LT, CH_PLUS, CH_RBRACK>>, 0),
        \* head bytes above 127
        BffCfg(200, 255, <<CH_PLUS, CH_COMMA, CH_RBRACK>>, 9),
        \* head bytes that are instructions, on a tape that never returns
        \* before the step limit
        BffCfg(CH_PLUS, CH_COMMA, <<>>, 0),
        BffCfg(CH_LBRACK, CH_RBRACK, <<CH_GT>>, 0),
        \* the write head starts on the second ','
        BffCfg(50, 3, <<CH_COMMA, CH_COMMA, CH_RBRACK>>, 7) }

BffInputs == BffGenerated \cup BffScenarios

\* the call bff_run(BffTapeOf(c)) has been entered
InitBff ==
    \E c \in BffInputs :
       \E s \in {BffEntry(BffTapeOf(c))} :
          /\ tape = s.tape /\ head0 = s.head0 /\ head1 = s.head1
          /\ ip = s.ip /\ stack = s.stack /\ sp = s.sp /\ steps = s.steps
          /\ arg_tape = s.tape /\ arg_head0 = 0 /\ arg_head1 = 0
          /\ pc = "loop"
          /\ twin = << >>
          /\ SoupIdle

\* lines 118-149: one pass through the loop
BffIter ==
    /\ pc = "loop"
    /\ BffLoopCond(Cur)
    /\ \E s \in {BffIterate(Cur)} :
        /\ tape' = s.tape
        /\ head0' = s.head0
        /\ head1' = s.head1
        /\ ip' = s.ip
        /\ stack' = s.stack
        /\ sp' = s.sp
        /\ steps' = s.steps
        /\ pc' = IF s.ret THEN "returned" ELSE "loop"
    /\ UNCHANGED <<arg_tape, arg_head0, arg_head1, twin, svars>>

\* line 151: the step limit
BffLimit ==
    /\ pc = "loop"
    /\ ~BffLoopCond(Cur)
    /\ pc' = "returned"
    /\ UNCHANGED <<tape, head0, head1, ip, stack, sp, steps,
                   arg_tape, arg_head0, arg_head1, twin, svars>>

NextBff == BffIter \/ BffLimit

SpecBff == InitBff /\ [][NextBff]_vars

IsTwoCommaScenario ==
    arg_tape = BffTapeOf(BffCfg(50, 70, <<CH_COMMA, CH_COMMA, CH_RBRACK>>, 7))

\* C34: a pass of bff_run on ',' writes the whole token under head0 to the
\* cell under head1 and nothing else, and moves head1 one cell on, modulo
\* 128; head0 changes only in a pass on '<' or '>'; and the run of
\* ',' ',' ']' leaves the token of cell 50 in cells 70 and 71.
C34_CommaAdvances ==
    [][ /\ (pc = "loop" /\ BffLoopCond(Cur)
                /\ BFFO_TOKEN_CHAR(tape[ip]) = CH_COMMA) =>
              /\ tape' = [tape EXCEPT ![head1] = tape[head0]]
              /\ head1' = (head1 + 1) % BFFO_TAPE_LEN
        /\ head0' # head0 => BFFO_TOKEN_CHAR(tape[ip]) \in {CH_LT, CH_GT}
        /\ head1' # head1 => BFFO_TOKEN_CHAR(tape[ip]) = CH_COMMA
        /\ (pc' = "returned" /\ IsTwoCommaScenario) =>
              /\ tape'[70] = arg_tape[50]
              /\ tape'[71] = arg_tape[50]
              /\ tape'[50] = arg_tape[50]
              /\ head0' = 50 /\ head1' = 72
      ]_vars

\* the run of ',' ',' ']' has returned with the two copies made
C34_Witness ==
    /\ pc = "returned" /\ IsTwoCommaScenario
    /\ steps = 3
    /\ BFFO_TOKEN_ID(tape[71]) = BFFO_TOKEN_ID(arg_tape[50])
    /\ BFFO_TOKEN_CHAR(tape[71]) = 7

(***************************************************************************)
(* bf_run_batch and its workers (bf.c, lines 102-175).  The main thread    *)
(* and the workers share the atomic counter next; a step of a thread is    *)
(* one atomic_fetch_add or one call of bf_run, which writes results[i].    *)
(* The batches of the program hold 64 indices; the model keeps the shape   *)
(* with BATCH_SIZE indices to a batch.                                     *)
(***************************************************************************)
BATCH_SIZE == 2
MaxBatchN == 5
MaxBatchThreads == 3
MaxCpus == 2

\* a fetch-and-add that moves the counter on by one index only
FetchAddOne(next) == next + 1

\* the value of *a->next after atomic_fetch_add(a->next, BATCH_SIZE)
FetchAdd(next) == next + BATCH_SIZE

\* lines 109-110, 160-161: end = base + BATCH_SIZE, cut at n
BatchEnd(base, n) == IF base + BATCH_SIZE > n THEN n ELSE base + BATCH_SIZE

\* bf_run(&programs[i], &results[i]) is called once more
RunIndex(b, i) == [b EXCEPT !.runs[i] = @ + 1]

BThreads == IF batch = << >> THEN {} ELSE DOMAIN batch.thr

\* bf_run_batch(programs, results, n, nthreads) has been called
InitBatch ==
    /\ RunIdle
    /\ SoupRest
    /\ seed = 0 /\ perm = << >> /\ global_rng = Word(0)
    /\ dpc = "none" /\ epoch = 0
    /\ sampler = << >> /\ bf = << >>
    /\ \E n \in 0 .. MaxBatchN, nt \in -1 .. MaxBatchThreads :
          batch = [at |-> "enter", n |-> n, nthreads |-> nt, t |-> 0,
                   next |-> 0, i |-> 0, end |-> 0,
                   thr |-> << >>, runs |-> [i \in 0 .. (n - 1) |-> 0]]

\* lines 128-145: n == 0 returns; the thread count is the number of
\* processors when none is given and at most n; malloc gives the thread
\* ids or fails
Batch_enter ==
    /\ batch # << >> /\ batch.at = "enter"
    /\ IF batch.n = 0
       THEN batch' = [batch EXCEPT !.at = "returned"]
       ELSE \E auto \in (IF batch.nthreads <= 0 THEN 1 .. MaxCpus
                                                ELSE {batch.nthreads}) :
            \E nt \in {IF auto > batch.n THEN batch.n ELSE auto} :
               \/ batch' = [batch EXCEPT !.at = "fallback", !.nthreads = nt]
               \/ batch' = [batch EXCEPT
                      !.at = "create", !.nthreads = nt,
                      !.thr = [t \in 0 .. (nt - 1) |->
                                  [at |-> "unborn", base |-> 0, i |-> 0, end |-> 0]]]
    /\ UNCHANGED <<ivars, cvars, gvars, dvars, wvars, ovars, sampler, bf>>

\* lines 146-151: without the thread ids every program is run in turn
Batch_fallback ==
    /\ batch # << >> /\ batch.at = "fallback"
    /\ IF batch.i < batch.n
       THEN batch' = [RunIndex(batch, batch.i) EXCEPT !.i = @ + 1]
       ELSE batch' = [batch EXCEPT !.at = "returned"]
    /\ UNCHANGED <<ivars, cvars, gvars, dvars, wvars, ovars, sampler, bf>>

\* lines 153-154: pthread_create for thread t, which starts the worker or
\* fails; after the last one the joins begin
Batch_create ==
    /\ batch # << >> /\ batch.at = "create"
    /\ IF batch.t < batch.nthreads
       THEN \/ batch' = [batch EXCEPT !.thr[batch.t].at = "claim", !.t = @ + 1]
            \/ batch' = [batch EXCEPT !.at = "inline_claim"]
       ELSE batch' = [batch EXCEPT !.at = "join", !.t = 0]
    /\ UNCHANGED <<ivars, cvars, gvars, dvars, wvars, ovars, sampler, bf>>

\* lines 156-158, 164-165: after a failed pthread_create the main thread
\* takes batches itself; when none is left, nthreads = t and the joins begin
Batch_inline_claim ==
    /\ batch # << >> /\ batch.at = "inline_claim"
    /\ IF batch.next < batch.n
       THEN batch' = [batch EXCEPT !.next = FetchAdd(@), !.i = batch.next,
                                   !.end = BatchEnd(batch.next, batch.n),
                                   !.at = "inline_run"]
       ELSE batch' = [batch EXCEPT !.next = FetchAdd(@), !.nthreads = batch.t,
                                   !.at = "join", !.t = 0]
    /\ UNCHANGED <<ivars, cvars, gvars, dvars, wvars, ovars, sampler, bf>>

\* lines 159-163
Batch_inline_run ==
    /\ batch # << >> /\ batch.at = "inline_run"
    /\ IF batch.i < batch.end
       THEN batch' = [RunIndex(batch, batch.i) EXCEPT !.i = @ + 1]
       ELSE batch' = [batch EXCEPT !.at = "inline_claim"]
    /\ UNCHANGED <<ivars, cvars, gvars, dvars, wvars, ovars, sampler, bf>>

\* lines 171-174: pthread_join(threads[t]) returns when worker t has; after
\* the last join the call returns
Batch_join ==
    /\ batch # << >> /\ batch.at = "join"
    /\ IF batch.t < batch.nthreads
       THEN /\ batch.thr[batch.t].at = "done"
            /\ batch' = [batch EXCEPT !.t = @ + 1]
       ELSE batch' = [batch EXCEPT !.at = "returned"]
    /\ UNCHANGED <<ivars, cvars, gvars, dvars, wvars, ovars, sampler, bf>>

\* lines 106-110: worker t takes a batch, or leaves when none is left
BWorker_claim(t) ==
    /\ batch.thr[t].at = "claim"
    /\ IF batch.next >= batch.n
       THEN batch' = [batch EXCEPT !.next = FetchAdd(@), !.thr[t].at = "done"]
       ELSE batch' = [batch EXCEPT
                !.next = FetchAdd(@),
                !.thr[t] = [at |-> "run", base |-> batch.next, i |-> batch.next,
                            end |-> BatchEnd(batch.next, batch.n)]]
    /\ UNCHANGED <<ivars, cvars, gvars, dvars, wvars, ovars, sampler, bf>>

\* lines 112-114
BWorker_run(t) ==
    /\ batch.thr[t].at = "run"
    /\ IF batch.thr[t].i < batch.thr[t].end
       THEN batch' = [RunIndex(batch, batch.thr[t].i) EXCEPT !.thr[t].i = @ + 1]
       ELSE batch' = [batch EXCEPT !.thr[t].at = "claim"]
    /\ UNCHANGED <<ivars, cvars, gvars, dvars, wvars, ovars, sampler, bf>>

NextBatch ==
    \/ Batch_enter
    \/ Batch_fallback
    \/ Batch_create
    \/ Batch_inline_claim
    \/ Batch_inline_run
    \/ Batch_join
    \/ \E t \in BThreads : BWorker_claim(t)
    \/ \E t \in BThreads : BWorker_run(t)

SpecBatch == InitBatch /\ [][NextBatch]_vars

BF_MAX_SRC == 128
BF_MAX_OUT == 128
BF_STACK == 64

\* the bytes that may be in a result that was never written
Indeterminate ==
    {[out_len |-> 0, halted |-> 0, steps |-> 0],
     [out_len |-> 9, halted |-> 1, steps |-> 3]}

Repeat(c, n) == [k \in 1 .. n |-> c]

BfMaxProgLen == 2
BfMaxSteps == 12

BfOps == {CH_PLUS, CH_MINUS, CH_GT, CH_LT, CH_DOT, CH_COMMA, CH_LBRACK, CH_RBRACK}

\* the programs tried, each with its step limit (0: none)
BfPrograms ==
    {[src |-> p, max_steps |-> BfMaxSteps] :
        p \in UNION {[1 .. n -> BfOps] : n \in 0 .. BfMaxProgLen}}
    \cup
    {[src |-> <<CH_PLUS, CH_PLUS, CH_PLUS, CH_PLUS, CH_DOT>>, max_steps |-> 0],
     [src |-> <<CH_LBRACK, CH_PLUS, CH_PLUS, CH_PLUS, CH_RBRACK, CH_DOT>>,
      max_steps |-> 0],
     [src |-> <<CH_PLUS, CH_PLUS, CH_LBRACK, CH_MINUS, CH_RBRACK, CH_DOT>>,
      max_steps |-> 0],
     [src |-> <<CH_LBRACK, 117, 110, 109>>, max_steps |-> 0],
     [src |-> <<CH_PLUS, CH_DOT, CH_RBRACK>>, max_steps |-> 0],
     [src |-> Repeat(CH_LBRACK, BF_STACK) \o Repeat(CH_RBRACK, BF_STACK),
      max_steps |-> 0],
     [src |-> Repeat(CH_LBRACK, BF_STACK), max_steps |-> 0],
     [src |-> Repeat(CH_LBRACK, BF_STACK + 1), max_steps |-> 0],
     [src |-> Repeat(CH_LBRACK, BF_MAX_SRC), max_steps |-> 0]}

\* bf_run(prog, result) has been entered (lines 22-30)
InitBf ==
    /\ RunIdle
    /\ SoupRest
    /\ seed = 0 /\ perm = << >> /\ global_rng = Word(0)
    /\ dpc = "none" /\ epoch = 0
    /\ sampler = << >> /\ batch = << >>
    /\ \E p \in BfPrograms, r \in Indeterminate :
          bf = [at |-> "pass1", src |-> p.src, max_steps |-> p.max_steps,
                tape |-> [k \in 0 .. 255 |-> 0],
                jumps |-> [k \in 0 .. (BF_MAX_SRC - 1) |-> -1],
                stack |-> [k \in 0 .. (BF_STACK - 1) |-> -1],
                sp |-> 0, i |-> 0, ip |-> 0, dp |-> 128, out |-> << >>,
                steps |-> 0, result |-> r, executed |-> 0, outside |-> FALSE]

\* line 33: stack[sp++] = i
Push(b) ==
    IF b.sp >= BF_STACK
    THEN [b EXCEPT !.outside = TRUE, !.at = "undefined"]
    ELSE [b EXCEPT !.stack[b.sp] = b.i, !.sp = @ + 1, !.i = @ + 1]

\* lines 36-39, 47-50: the return for unmatched brackets
Malformed(b) ==
    [b EXCEPT !.result.out_len = 0, !.result.halted = 0, !.at = "returned"]

\* lines 31-45: one turn of the loop of pass 1, or its end
Bf_scan ==
    /\ bf # << >> /\ bf.at = "pass1"
    /\ bf.i < Len(bf.src)
    /\ \E c \in {bf.src[bf.i + 1]} :
          bf' = IF c = CH_LBRACK THEN Push(bf)
                ELSE IF c = CH_RBRACK
                THEN IF bf.sp = 0 THEN Malformed(bf)
                     ELSE [bf EXCEPT !.sp = @ - 1,
                                     !.jumps[bf.stack[bf.sp - 1]] = bf.i,
                                     !.jumps[bf.i] = bf.stack[bf.sp - 1],
                                     !.i = @ + 1]
                ELSE [bf EXCEPT !.i = @ + 1]
    /\ UNCHANGED <<ivars, cvars, gvars, dvars, wvars, ovars, sampler, batch>>

\* lines 46-58: after the loop, unmatched '[' returns, else pass 2 begins
Bf_scanned ==
    /\ bf # << >> /\ bf.at = "pass1"
    /\ bf.i >= Len(bf.src)
    /\ bf' = IF bf.sp # 0 THEN Malformed(bf) ELSE [bf EXCEPT !.at = "pass2"]
    /\ UNCHANGED <<ivars, cvars, gvars, dvars, wvars, ovars, sampler, batch>>

\* lines 67-87: the switch, then ip++ and steps++
BfExecute(b) ==
    LET c == b.src[b.ip + 1]
        d == CASE c = CH_PLUS -> [b EXCEPT !.tape[b.dp] = (@ + 1) % 256]
               [] c = CH_MINUS -> [b EXCEPT !.tape[b.dp] = (@ + 255) % 256]
               [] c = CH_GT -> [b EXCEPT !.dp = (@ + 1) % 256]
               [] c = CH_LT -> [b EXCEPT !.dp = (@ + 255) % 256]
               [] c = CH_DOT -> IF Len(b.out) < BF_MAX_OUT
                                THEN [b EXCEPT !.out = Append(@, b.tape[b.dp])]
                                ELSE b
               [] c = CH_COMMA -> [b EXCEPT !.tape[b.dp] = 0]
               [] c = CH_LBRACK -> IF b.tape[b.dp] = 0
                                   THEN [b EXCEPT !.ip = b.jumps[b.ip]] ELSE b
               [] c = CH_RBRACK -> IF b.tape[b.dp] # 0
                                   THEN [b EXCEPT !.ip = b.jumps[b.ip]] ELSE b
               [] OTHER -> b
    IN  [d EXCEPT !.ip = (@ + 1) % 256, !.steps = @ + 1, !.executed = @ + 1]

\* lines 60-92: one turn of the loop of pass 2: the timeout, an instruction,
\* or the normal end
Bf_exec ==
    /\ bf # << >> /\ bf.at = "pass2"
    /\ bf' = IF bf.ip < Len(bf.src)
             THEN IF bf.max_steps # 0 /\ bf.steps >= bf.max_steps
                  THEN [bf EXCEPT !.result = [out_len |-> Len(bf.out), halted |-> 0,
                                              steps |-> bf.steps],
                                  !.at = "returned"]
                  ELSE BfExecute(bf)
             ELSE [bf EXCEPT !.result = [out_len |-> Len(bf.out), halted |-> 1,
                                         steps |-> bf.steps],
                             !.at = "returned"]
    /\ UNCHANGED <<ivars, cvars, gvars, dvars, wvars, ovars, sampler, batch>>

NextBf == Bf_scan \/ Bf_scanned \/ Bf_exec

SpecBf == InitBf /\ [][NextBf]_vars

\* experiment.c, lines 45-58: how the harness counts a result
Harness(r) ==
    IF r.halted # 0 THEN "halted"
    ELSE IF r.steps > 0 THEN "timeout"
    ELSE "malformed"

\* the brackets of src[k ..] match, depth of them being open at k
RECURSIVE Matched(_, _, _)
Matched(src, k, depth) ==
    IF k > Len(src) THEN depth = 0
    ELSE IF src[k] = CH_LBRACK THEN Matched(src, k + 1, depth + 1)
    ELSE IF src[k] = CH_RBRACK THEN depth > 0 /\ Matched(src, k + 1, depth - 1)
    ELSE Matched(src, k + 1, depth)

\* C36: when bf_run has returned from a program whose brackets do not match,
\* no instruction was executed, the result reads halted = 0, out_len = 0 and
\* steps = 0, and the harness counts it as malformed.
C36_MalformedReported ==
    (bf # << >> /\ bf.at = "returned" /\ ~Matched(bf.src, 1, 0)) =>
        /\ bf.executed = 0
        /\ bf.result.halted = 0
        /\ bf.result.out_len = 0
        /\ bf.result.steps = 0
        /\ Harness(bf.result) = "malformed"

\* C40: no access to the stack of the bracket-matching pass falls outside
\* its 64 entries.
C40_BracketStackInBounds ==
    bf # << >> => (~bf.outside /\ bf.sp <= BF_STACK)

WorkerStore == \E t \in Workers : wpc[t] = "store" /\ wpc'[t] = "loop"

\* C38: the write-back of an executed pair brings no id into the arena that
\* was not there before it; every id in the initialised arena is smaller
\* than next_token_id; and in a run without mutation the unique-id counts of the
\* stats rows never increase from one row to the next.
C38_NoIdCreated ==
    [][ /\ WorkerStore => IdsPresent' \subseteq IdsPresent
        /\ Seeded' => \A id \in IdsPresent' : Lt32(id, next_token_id')
        /\ ~mutation_on =>
              \A k \in 1 .. (Len(rows') - 1) :
                  rows'[k + 1].stats.unique <= rows'[k].stats.unique
      ]_vars

(***************************************************************************)
(* Claims about the statistics and the stats interval                      *)
(***************************************************************************)
\* the values of --stats tried
StatIntervals == {0, 1, 2, 3}

\* the run of soup_orig.c from the arena as initialised, for each of the
\* stats intervals
InitInterval == \E interval \in StatIntervals : InitAt(interval)

SpecInterval == InitInterval /\ [][Next]_vars

\* the step is lines 292-298 or lines 305-318: soup_stats is called or the
\* epoch goes by without a row
StatsStep ==
    \/ dpc = "stats0" /\ dpc' = "top"
    \/ dpc = "stats" /\ dpc' # "stats"

\* C39: the statistics step changes none of the arena, perm, pair_steps,
\* next_token_id and global_rng; and whatever the stats interval, without
\* mutation the arena at every epoch boundary is that of the sequential run
\* of the seed and the thread count, in which the interval has no part.
C39_StatsFrame ==
    /\ [][StatsStep => UNCHANGED <<soup, perm, pair_steps, next_token_id,
                                   global_rng>>]_vars
    /\ []((~mutation_on /\ EpochDone) =>
              soup = SeqState(seed, nthreads, epoch).soup)

\* a run that prints every third epoch is past its second epoch with the one
\* row of epoch 0 out, and the arena is that of the sequential run
C39_Witness ==
    /\ stats_interval = 3
    /\ ~mutation_on
    /\ dpc = "top" /\ epoch = 3
    /\ Len(rows) = 1
    /\ soup = SeqState(seed, nthreads, 2).soup
    /\ soup # SeqState(seed, nthreads, 0).soup

=============================================================================
